---------------------------- MODULE Spec2Model ----------------------------
(***************************************************************************)
(* TotalsService of the Medusa backend (src/unnamed/part_000): the totals, *)
(* tax, discount, gift-card and refund computations over a cart or order. *)
(*                                                                         *)
(* JavaScript numbers are modelled as exact rationals n/d (d > 0), with    *)
(* d = 0 standing for NaN (0/0), +Infinity (1/0) and -Infinity (-1/0).     *)
(* Binary floating-point representation error is not modelled.             *)
(* Every service method is an operator returning a result record           *)
(* [st, v, log]: st is "ok" or the kind of the error thrown, v the value   *)
(* returned and log the collaborator calls issued, in order.               *)
(***************************************************************************)
EXTENDS Integers, Sequences, FiniteSets, TLC

VARIABLES
    x,             \* the cart or order the operations are called on
    featureFlag,   \* featureFlagRouter_.isFeatureEnabled(tax_inclusive_pricing)
    providerRates, \* the rates the tax provider resolves for the region
    op,            \* the operation called last
    arg,           \* its options / arguments
    res,           \* its result record
    callerContext  \* the calculation context object the caller passed, if any

vars == <<x, featureFlag, providerRates, op, arg, res, callerContext>>

---------------------------------------------------------------------------
(* JavaScript numbers *)

Abs(i) == IF i < 0 THEN -i ELSE i

Sign(i) == IF i < 0 THEN -1 ELSE IF i > 0 THEN 1 ELSE 0

RECURSIVE GCD(_, _)
GCD(a, b) == IF b = 0 THEN a ELSE GCD(b, a % b)

\* the number n/d in lowest terms; d = 0 gives NaN or an infinity
Num(n, d) ==
    IF d = 0 THEN [n |-> Sign(n), d |-> 0, t |-> "num"]
    ELSE LET s == IF d < 0 THEN -1 ELSE 1
             g == GCD(Abs(n), Abs(d))
         IN  [n |-> (s * n) \div g, d |-> (s * d) \div g, t |-> "num"]

Nr(i) == [n |-> i, d |-> 1, t |-> "num"]

NaN == [n |-> 0, d |-> 0, t |-> "num"]

null == [n |-> 0, d |-> 1, t |-> "null"]

NoValue == [n |-> 0, d |-> 1, t |-> "none"]

IsNaN(a) == a.d = 0 /\ a.n = 0

IsInteger(a) == a.t = "num" /\ a.d = 1

Add(a, b) ==
    IF a.d = 0 /\ b.d = 0
    THEN (IF a.n = b.n THEN a ELSE NaN)
    ELSE Num(a.n * b.d + b.n * a.d, a.d * b.d)

Neg(a) == [n |-> -a.n, d |-> a.d, t |-> "num"]

Sub(a, b) == Add(a, Neg(b))

Mul(a, b) == Num(a.n * b.n, a.d * b.d)

Div(a, b) == IF b.n < 0 THEN Num(-(a.n * b.d), a.d * (-b.n))
             ELSE Num(a.n * b.d, a.d * b.n)

Lt(a, b) ==
    IF IsNaN(a) \/ IsNaN(b) THEN FALSE
    ELSE IF a.d = 0 /\ b.d = 0 THEN a.n < b.n
    ELSE a.n * b.d < b.n * a.d

\* Math.min, Math.max
MathMin(a, b) == IF IsNaN(a) \/ IsNaN(b) THEN NaN ELSE IF Lt(b, a) THEN b ELSE a

MathMax(a, b) == IF IsNaN(a) \/ IsNaN(b) THEN NaN ELSE IF Lt(a, b) THEN b ELSE a

\* Math.round: floor(value + 0.5); NaN and the infinities are returned as is
MathRound(a) == IF a.d = 0 THEN a ELSE Nr((2 * a.n + a.d) \div (2 * a.d))

\* the operand test of  v || 0 : null, 0 and NaN are falsy
Truthy(a) == a.t = "num" /\ a.n # 0

OrZero(a) == IF Truthy(a) THEN a ELSE Nr(0)

\* v ?? 0
NullishZero(a) == IF a.t = "num" THEN a ELSE Nr(0)

Hundred == Nr(100)

---------------------------------------------------------------------------
(* optional relations, results, folds *)

Some(v) == [v |-> v, def |-> TRUE]

undefined == [v |-> <<>>, def |-> FALSE]

isDefined(o) == o.def

\* o || []
OrEmpty(o) == IF o.def THEN o.v ELSE <<>>

Ok(v, log) == [v |-> v, log |-> log, st |-> "ok"]

Fail(kind, log) == [v |-> NoValue, log |-> log, st |-> kind]

\* awaiting the calls rs one after the other: the first failure ends the
\* sequence; log holds the collaborator calls issued up to that point
RECURSIVE ChainFrom(_, _, _)
ChainFrom(rs, i, log) ==
    IF i > Len(rs) THEN [log |-> log, st |-> "ok"]
    ELSE IF rs[i].st # "ok" THEN [log |-> log \o rs[i].log, st |-> rs[i].st]
    ELSE ChainFrom(rs, i + 1, log \o rs[i].log)

\* the calls awaited last to first
ChainReversed(rs) == ChainFrom([i \in 1..Len(rs) |-> rs[Len(rs) + 1 - i]], 1, <<>>)

Chain(rs) == ChainFrom(rs, 1, <<>>)

RECURSIVE SumFrom(_, _)
SumFrom(s, i) == IF i > Len(s) THEN Nr(0) ELSE Add(s[i], SumFrom(s, i + 1))

\* reduce((acc, next) => acc + next, 0) over a sequence of numbers
Sum(s) == SumFrom(s, 1)

RECURSIVE FlatFrom(_, _)
FlatFrom(ss, i) == IF i > Len(ss) THEN <<>> ELSE ss[i] \o FlatFrom(ss, i + 1)

\* Array.prototype.flat over a sequence of sequences
Flat(ss) == FlatFrom(ss, 1)

Call(fn, n, noalloc) == [n |-> n, fn |-> fn, noalloc |-> noalloc]

Calls(log, fn) == {i \in 1..Len(log) : log[i].fn = fn}

---------------------------------------------------------------------------
(* collaborators: interfaces consumed by the service *)

isOrder(o) == o.object = "order"

isCart(o) == o.object = "cart"

\* utils.calculatePriceTaxAmount({price, taxRate, includesTax})
calculatePriceTaxAmount(price, taxRate, includesTax) ==
    IF includesTax THEN Div(Mul(taxRate, price), Add(Nr(1), taxRate))
    ELSE Mul(price, taxRate)

ItemLine(item, rate) == [kind |-> "item", rate |-> rate, ref |-> item.id]

ShippingLine(sm, rate) == [kind |-> "shipping", rate |-> rate, ref |-> sm.id]

\* TaxProviderService.getTaxLines(items, calculationContext): one line per
\* resolved rate for each item, then for each shipping method of the context
\* providerRates when the provider's promise rejects
Unavailable == <<-1>>

getTaxLines(items, context) ==
    LET perItem == [i \in 1..Len(items) |->
                      [k \in 1..Len(providerRates) |-> ItemLine(items[i], providerRates[k])]]
        perMethod == [i \in 1..Len(context.shipping_methods) |->
                      [k \in 1..Len(providerRates) |->
                         ShippingLine(context.shipping_methods[i], providerRates[k])]]
    IN  IF providerRates = Unavailable
        THEN Fail("ProviderError", <<Call("getTaxLines", Len(items), FALSE)>>)
        ELSE Ok(Flat(perItem) \o Flat(perMethod), <<Call("getTaxLines", Len(items), FALSE)>>)

RateSum(lines) == Sum([k \in 1..Len(lines) |-> Div(Nr(lines[k].rate), Hundred)])

\* the taxable amount of one item under the strategy
TaxableAmount(item, lines, context) ==
    LET includesTax == featureFlag /\ item.includes_tax
        included == MathRound(calculatePriceTaxAmount(Nr(item.unit_price), RateSum(lines), includesTax))
        base == IF includesTax
                THEN Mul(Sub(Nr(item.unit_price), included), Nr(item.quantity))
                ELSE Nr(item.unit_price * item.quantity)
        alloc == IF item.id \in DOMAIN context.allocation_map
                 THEN context.allocation_map[item.id].discount.amount ELSE Nr(0)
    IN  Sub(base, alloc)

LineItemTax(item, taxLines, context) ==
    LET lines == SelectSeq(taxLines, LAMBDA tl : tl.kind = "item" /\ tl.ref = item.id)
        amount == TaxableAmount(item, lines, context)
    IN  Sum([k \in 1..Len(lines) |-> Mul(amount, Div(Nr(lines[k].rate), Hundred))])

ShippingMethodTax(sm, taxLines) ==
    LET lines == SelectSeq(taxLines, LAMBDA tl : tl.kind = "shipping" /\ tl.ref = sm.id)
    IN  Sum([k \in 1..Len(lines) |->
               calculatePriceTaxAmount(Nr(sm.price), Div(Nr(lines[k].rate), Hundred),
                                       featureFlag /\ sm.includes_tax)])

\* ITaxCalculationStrategy.calculate(items, taxLines, calculationContext)
calculate(items, taxLines, context) ==
    LET itemsTax == Sum([i \in 1..Len(items) |-> LineItemTax(items[i], taxLines, context)])
        shippingTax == Sum([i \in 1..Len(context.shipping_methods) |->
                              ShippingMethodTax(context.shipping_methods[i], taxLines)])
    IN  Ok(MathRound(Add(itemsTax, shippingTax)),
           <<Call("calculate", Len(items), DOMAIN context.allocation_map = {})>>)

\* NewTotalsService.getGiftCardTotals(giftCardableAmount, {region, giftCards,
\* giftCardTransactions})
getGiftCardTotals(giftCardable, region, giftCards, giftCardTransactions) ==
    LET rate == IF region.gift_cards_taxable THEN Div(Nr(region.tax_rate), Hundred) ELSE Nr(0)
        spent == Sum([k \in 1..Len(giftCardTransactions) |-> Nr(giftCardTransactions[k])])
        balance == Sum([k \in 1..Len(giftCards) |-> Nr(giftCards[k])])
        total == IF Len(giftCardTransactions) > 0 THEN spent
                 ELSE MathMin(giftCardable, balance)
        v == IF Len(giftCards) = 0 /\ Len(giftCardTransactions) = 0
             THEN [total |-> Nr(0), tax_total |-> Nr(0)]
             ELSE [total |-> total, tax_total |-> MathRound(Mul(total, rate))]
    IN  Ok(v, <<Call("getGiftCardTotals", 0, FALSE)>>)

---------------------------------------------------------------------------
(* TotalsService: allocation map and calculation context *)

FREE_SHIPPING == "free_shipping"

EmptyMap == [k \in {} |-> 0]

\* items of the order followed by the additional items of its swaps and claims
Merged(cartOrOrder) ==
    cartOrOrder.items
      \o Flat([k \in 1..Len(cartOrOrder.swaps) |-> cartOrOrder.swaps[k].additional_items])
      \o Flat([k \in 1..Len(cartOrOrder.claims) |-> cartOrOrder.claims[k].additional_items])

AmountSum(adjs) == Sum([k \in 1..Len(adjs) |-> Nr(adjs[k].amount)])

getLineDiscounts(cartOrOrder, discount) ==
    LET merged == Merged(cartOrOrder)
        One(item) ==
            LET adjustments == OrEmpty(item.adjustments)
                discountAdjustments ==
                    IF discount.def
                    THEN SelectSeq(adjustments, LAMBDA a : a.discount_id = discount.v.id)
                    ELSE <<>>
                customAdjustments == SelectSeq(adjustments, LAMBDA a : a.discount_id = "null")
            IN  [item |-> item,
                 amount |-> IF item.allow_discounts THEN AmountSum(discountAdjustments) ELSE Nr(0),
                 customAdjustmentsAmount |-> AmountSum(customAdjustments)]
    IN  [k \in 1..Len(merged) |-> One(merged[k])]

\* the first discount, whatever its type
FirstOfAnyType(discounts) ==
    IF Len(discounts) > 0 THEN Some(discounts[1]) ELSE undefined

\* discounts.find(({ rule }) => rule.type !== FREE_SHIPPING)
FirstDiscount(discounts) ==
    LET hits == SelectSeq(discounts, LAMBDA d : d.type # FREE_SHIPPING)
    IN  IF Len(hits) > 0 THEN Some(hits[1]) ELSE undefined

RECURSIVE AllocationFold(_, _, _)
AllocationFold(lineDiscounts, i, allocationMap) ==
    IF i > Len(lineDiscounts) THEN allocationMap
    ELSE LET ld == lineDiscounts[i]
             adjustmentAmount == Add(ld.amount, ld.customAdjustmentsAmount)
             perUnit == Div(adjustmentAmount, Nr(ld.item.quantity))
             entry == [discount |->
                         [amount |-> adjustmentAmount,
                          unit_amount |-> IF ld.item.id \in DOMAIN allocationMap
                                          THEN perUnit ELSE MathRound(perUnit)]]
         IN  AllocationFold(lineDiscounts, i + 1,
                 [k \in DOMAIN allocationMap \cup {ld.item.id} |->
                     IF k = ld.item.id THEN entry ELSE allocationMap[k]])

getAllocationMap(orderOrCart, options) ==
    IF options.exclude_discounts THEN EmptyMap
    ELSE AllocationFold(getLineDiscounts(orderOrCart, FirstDiscount(orderOrCart.discounts)),
                        1, EmptyMap)

NoContextOptions ==
    [exclude_discounts |-> FALSE, is_return |-> FALSE,
     exclude_shipping |-> FALSE, exclude_gift_cards |-> FALSE]

getCalculationContext(data, options) ==
    [shipping_methods |-> IF options.exclude_shipping THEN <<>> ELSE data.shipping_methods,
     allocation_map |-> getAllocationMap(data, options),
     region |-> data.region,
     is_return |-> options.is_return]

---------------------------------------------------------------------------
(* TotalsService: per-line and per-shipping-method breakdowns *)

\* rounding with halves taken away from zero
roundedHalfAway(value) ==
    IF value.d = 0 THEN value
    ELSE IF value.n < 0 THEN Neg(MathRound(Neg(value))) ELSE MathRound(value)

\* rounded(value)
rounded(value) == MathRound(value)

\* the calls logged so far, followed by those of the call r
After(log, r) == [r EXCEPT !.log = log \o r.log]

NoContext == [v |-> [shipping_methods |-> <<>>], def |-> FALSE]

LineItemTotalsOptions(include_tax, use_tax_lines, exclude_gift_cards) ==
    [exclude_gift_cards |-> exclude_gift_cards, include_tax |-> include_tax,
     use_tax_lines |-> use_tax_lines, calculation_context |-> NoContext]

\* lines 789-815: the totals before any tax information
SeedItemTotals(lineItem, options, raw_discount_total) ==
    LET subtotal == IF featureFlag /\ lineItem.includes_tax /\ options.include_tax
                    THEN Nr(0) ELSE Nr(lineItem.unit_price * lineItem.quantity)
        discount_total == MathRound(raw_discount_total)
    IN  [unit_price |-> lineItem.unit_price,
         quantity |-> lineItem.quantity,
         total |-> Sub(subtotal, discount_total),
         tax_total |-> Nr(0),
         raw_discount_total |-> raw_discount_total,
         subtotal |-> subtotal,
         discount_total |-> discount_total,
         original_total |-> subtotal,
         original_tax_total |-> Nr(0),
         tax_lines |-> Some(OrEmpty(lineItem.tax_lines))]

\* lineItemAllocation.discount?.amount ?? 0
RawDiscountTotal(lineItem, calculationContext) ==
    IF lineItem.id \in DOMAIN calculationContext.allocation_map
    THEN calculationContext.allocation_map[lineItem.id].discount.amount
    ELSE Nr(0)

\* lines 822-847: the backward compatible computation of the old tax system
LegacyItemTotals(lineItem, cartOrOrder, t) ==
    LET taxRate == Div(cartOrOrder.tax_rate, Hundred)
        includesTax == featureFlag /\ lineItem.includes_tax
        taxIncludedInPrice ==
            IF ~lineItem.includes_tax THEN Nr(0)
            ELSE MathRound(calculatePriceTaxAmount(Nr(lineItem.unit_price), taxRate, includesTax))
        subtotal == Mul(Sub(Nr(lineItem.unit_price), taxIncludedInPrice), Nr(lineItem.quantity))
        original_tax_total == Mul(subtotal, taxRate)
        tax_total == Mul(Sub(subtotal, t.discount_total), taxRate)
    IN  [t EXCEPT !.subtotal = subtotal,
                  !.total = Add(subtotal, tax_total),
                  !.original_tax_total = original_tax_total,
                  !.tax_total = tax_total,
                  !.original_total = Add(t.original_total, original_tax_total)]

\* the lines the provider returned, as the item's tax lines
Fetched(fetched) == IF fetched.st # "ok" THEN fetched ELSE Ok(Some(fetched.v), fetched.log)

\* lines 849-878: the tax lines of a line item on the tax-lines system
ResolveItemTaxLines(lineItem, cartOrOrder, options, calculationContext) ==
    IF options.use_tax_lines \/ isOrder(cartOrOrder) \/ lineItem.is_return
    THEN IF ~isDefined(lineItem.tax_lines) /\ lineItem.variant_id # "null"
         THEN Fail("UNEXPECTED_STATE", <<>>)
         ELSE Ok(lineItem.tax_lines, <<>>)
    ELSE Fetched(getTaxLines(<<lineItem>>, calculationContext))

\* line 880: lineItemTotals.tax_lines = taxLines
JoinTaxLines(t, resolved) ==
    IF resolved.st # "ok" THEN resolved
    ELSE Ok([t EXCEPT !.tax_lines = resolved.v], resolved.log)

\* lines 818-882: the tax information of the line
ItemTaxInfo(lineItem, cartOrOrder, options, calculationContext, t) ==
    IF ~options.include_tax THEN Ok(t, <<>>)
    ELSE IF isOrder(cartOrOrder) /\ cartOrOrder.tax_rate # null
    THEN Ok(LegacyItemTotals(lineItem, cartOrOrder, t), <<>>)
    ELSE JoinTaxLines(t, ResolveItemTaxLines(lineItem, cartOrOrder, options, calculationContext))

\* lines 902-916: the totals once the strategy has answered
ItemTotalsWithTax(lineItem, t, withTax, original) ==
    LET inclusive == featureFlag /\ lineItem.includes_tax
        subtotal == IF inclusive
                    THEN Add(t.subtotal,
                             Sub(Nr(lineItem.unit_price * lineItem.quantity), original.v))
                    ELSE t.subtotal
        total == IF inclusive THEN Add(t.total, subtotal) ELSE t.total
        original_total == IF inclusive THEN Add(t.original_total, subtotal)
                          ELSE t.original_total
    IN  Ok([t EXCEPT !.tax_total = withTax.v,
                     !.original_tax_total = original.v,
                     !.subtotal = subtotal,
                     !.total = Add(total, withTax.v),
                     !.original_total = Add(original_total, original.v)],
           withTax.log \o original.log)

\* the strategy asked without the discounts first, with them second
ApplyItemTaxLinesSwapped(lineItem, t, calculationContext) ==
    IF ~isDefined(t.tax_lines) THEN Fail("TypeError", <<>>)
    ELSE IF Len(t.tax_lines.v) = 0 THEN Ok(t, <<>>)
    ELSE ItemTotalsWithTax(lineItem, t,
             calculate(<<lineItem>>, t.tax_lines.v,
                       [calculationContext EXCEPT !.allocation_map = EmptyMap]),
             calculate(<<lineItem>>, t.tax_lines.v, calculationContext))

\* lines 884-917: the strategy is asked when there are tax lines
ApplyItemTaxLines(lineItem, t, calculationContext) ==
    IF ~isDefined(t.tax_lines) THEN Fail("TypeError", <<>>)
    ELSE IF Len(t.tax_lines.v) = 0 THEN Ok(t, <<>>)
    ELSE ItemTotalsWithTax(lineItem, t,
             calculate(<<lineItem>>, t.tax_lines.v, calculationContext),
             calculate(<<lineItem>>, t.tax_lines.v,
                       [calculationContext EXCEPT !.allocation_map = EmptyMap]))

FinishItemTotals(lineItem, info, calculationContext) ==
    IF info.st # "ok" THEN info
    ELSE After(info.log, ApplyItemTaxLines(lineItem, info.v, calculationContext))

LineItemTotalsIn(lineItem, cartOrOrder, options, calculationContext) ==
    FinishItemTotals(lineItem,
        ItemTaxInfo(lineItem, cartOrOrder, options, calculationContext,
                    SeedItemTotals(lineItem, options,
                                   RawDiscountTotal(lineItem, calculationContext))),
        calculationContext)

getLineItemTotals(lineItem, cartOrOrder, options) ==
    LineItemTotalsIn(lineItem, cartOrOrder, options,
        IF options.calculation_context.def THEN options.calculation_context.v
        ELSE getCalculationContext(cartOrOrder,
                 [NoContextOptions EXCEPT !.exclude_shipping = TRUE,
                                          !.exclude_gift_cards = options.exclude_gift_cards]))

\* options.calculation_context after getLineItemTotals: line 890 copies the
\* context before changing the allocation map
ContextAfterLineItemTotals(options) == options.calculation_context

ShippingMethodTotalsOptions(include_tax) ==
    [include_tax |-> include_tax, use_tax_lines |-> FALSE, calculation_context |-> NoContext]

\* lines 203-211
SeedShippingTotals(shippingMethod) ==
    [price |-> Nr(shippingMethod.price),
     total |-> Nr(shippingMethod.price),
     tax_total |-> Nr(0),
     subtotal |-> Nr(shippingMethod.price),
     original_total |-> Nr(shippingMethod.price),
     original_tax_total |-> Nr(0),
     tax_lines |-> shippingMethod.tax_lines]

\* lines 214-220: the flat rate of the old tax system
LegacyShippingTotals(cartOrOrder, totals) ==
    LET tax == MathRound(Mul(totals.price, Div(cartOrOrder.tax_rate, Hundred)))
    IN  [totals EXCEPT !.original_tax_total = tax, !.tax_total = tax]

\* every line of the provider taken as the method's
AllProviderLines(shippingMethod, cartOrOrder, totals, orderLines) ==
    IF orderLines.st # "ok" THEN orderLines
    ELSE IF Len(orderLines.v) = 0 /\ isOrder(cartOrOrder)
    THEN Fail("UNEXPECTED_STATE", orderLines.log)
    ELSE Ok([totals EXCEPT !.tax_lines = orderLines.v], orderLines.log)

\* lines 226-238: the provider's lines of this method
OwnShippingLines(shippingMethod, cartOrOrder, totals, orderLines) ==
    LET own == SelectSeq(orderLines.v,
                   LAMBDA ol : ol.kind = "shipping" /\ ol.ref = shippingMethod.id)
    IN  IF orderLines.st # "ok" THEN orderLines
        ELSE IF Len(own) = 0 /\ isOrder(cartOrOrder)
        THEN Fail("UNEXPECTED_STATE", orderLines.log)
        ELSE Ok([totals EXCEPT !.tax_lines = own], orderLines.log)

\* lines 213-239: the tax figures or tax lines of the method
ShippingTaxInfo(shippingMethod, cartOrOrder, totals, calculationContext) ==
    IF isOrder(cartOrOrder) /\ cartOrOrder.tax_rate # null
    THEN Ok(LegacyShippingTotals(cartOrOrder, totals), <<>>)
    ELSE IF Len(totals.tax_lines) = 0
    THEN OwnShippingLines(shippingMethod, cartOrOrder, totals,
                          getTaxLines(cartOrOrder.items, calculationContext))
    ELSE Ok(totals, <<>>)

\* the tax added to the totals whether or not the price includes it
ShippingTotalsTaxAdded(shippingMethod, totals, tax) ==
    Ok([totals EXCEPT !.original_tax_total = tax.v,
                      !.tax_total = tax.v,
                      !.original_total = Add(totals.original_total, tax.v),
                      !.total = Add(totals.total, tax.v)],
       tax.log)

\* lines 247-260
ShippingTotalsWithTax(shippingMethod, totals, tax) ==
    Ok(IF featureFlag /\ shippingMethod.includes_tax
       THEN [totals EXCEPT !.original_tax_total = tax.v,
                           !.tax_total = tax.v,
                           !.subtotal = Sub(totals.subtotal, tax.v)]
       ELSE [totals EXCEPT !.original_tax_total = tax.v,
                           !.tax_total = tax.v,
                           !.original_total = Add(totals.original_total, tax.v),
                           !.total = Add(totals.total, tax.v)],
       tax.log)

\* lines 241-261
ApplyShippingTaxLines(shippingMethod, totals, calculationContext) ==
    IF Len(totals.tax_lines) = 0 THEN Ok(totals, <<>>)
    ELSE ShippingTotalsWithTax(shippingMethod, totals,
                               calculate(<<>>, totals.tax_lines, calculationContext))

\* cartOrOrder.discounts?.some((d) => d.rule.type === FREE_SHIPPING)
hasFreeShipping(cartOrOrder) ==
    \E k \in 1..Len(cartOrOrder.discounts) : cartOrOrder.discounts[k].type = FREE_SHIPPING

\* the override leaving the tax of the method in place
FreeShippingKeepsTax(cartOrOrder, totals) ==
    IF hasFreeShipping(cartOrOrder)
    THEN [totals EXCEPT !.total = Nr(0), !.subtotal = Nr(0)]
    ELSE totals

\* lines 268-272
FreeShippingOverride(cartOrOrder, totals) ==
    IF hasFreeShipping(cartOrOrder)
    THEN [totals EXCEPT !.total = Nr(0), !.subtotal = Nr(0), !.tax_total = Nr(0)]
    ELSE totals

\* lines 264-274
FinishShippingTotals(cartOrOrder, r) ==
    IF r.st # "ok" THEN r ELSE Ok(FreeShippingOverride(cartOrOrder, r.v), r.log)

TaxedShippingTotals(shippingMethod, info, calculationContext) ==
    IF info.st # "ok" THEN info
    ELSE After(info.log, ApplyShippingTaxLines(shippingMethod, info.v, calculationContext))

ShippingMethodTotalsIn(shippingMethod, cartOrOrder, opts, calculationContext) ==
    FinishShippingTotals(cartOrOrder,
        IF ~opts.include_tax THEN Ok(SeedShippingTotals(shippingMethod), <<>>)
        ELSE TaxedShippingTotals(shippingMethod,
                 ShippingTaxInfo(shippingMethod, cartOrOrder,
                                 SeedShippingTotals(shippingMethod), calculationContext),
                 calculationContext))

\* line 201: calculationContext.shipping_methods = [shippingMethod]
ShippingContext(shippingMethod, given) ==
    [given EXCEPT !.shipping_methods = <<shippingMethod>>]

getShippingMethodTotals(shippingMethod, cartOrOrder, opts) ==
    ShippingMethodTotalsIn(shippingMethod, cartOrOrder, opts,
        ShippingContext(shippingMethod,
            IF opts.calculation_context.def THEN opts.calculation_context.v
            ELSE getCalculationContext(cartOrOrder,
                     [NoContextOptions EXCEPT !.exclude_shipping = TRUE])))

\* opts.calculation_context after getShippingMethodTotals: line 201 assigns
\* to the object it was passed
ContextAfterShippingMethodTotals(shippingMethod, opts) ==
    IF opts.calculation_context.def
    THEN Some(ShippingContext(shippingMethod, opts.calculation_context.v))
    ELSE opts.calculation_context

---------------------------------------------------------------------------
(* TotalsService: aggregate totals *)

\* the sum of the subtotal fields of the breakdowns, unless one of them failed
SubtotalSum(each, c) ==
    IF c.st # "ok" THEN Fail(c.st, c.log)
    ELSE Ok(Sum([k \in 1..Len(each) |-> each[k].v.subtotal]), c.log)

SummedSubtotals(each) == SubtotalSum(each, Chain(each))

Rounding(r) == IF r.st # "ok" THEN r ELSE Ok(rounded(r.v), r.log)

\* every item, whatever the options
CountedAll(cartOrOrder, opts) == cartOrOrder.items

\* lines 300-309: the items the subtotal is taken over
Counted(cartOrOrder, opts) ==
    IF opts.excludeNonDiscounts
    THEN SelectSeq(cartOrOrder.items, LAMBDA item : item.allow_discounts)
    ELSE cartOrOrder.items

EachItemTotals(cartOrOrder, counted) ==
    [k \in 1..Len(counted) |->
        getLineItemTotals(counted[k], cartOrOrder, LineItemTotalsOptions(TRUE, FALSE, TRUE))]

getSubtotal(cartOrOrder, opts) ==
    Rounding(SummedSubtotals(EachItemTotals(cartOrOrder, Counted(cartOrOrder, opts))))

getShippingTotal(cartOrOrder) ==
    SummedSubtotals([k \in 1..Len(cartOrOrder.shipping_methods) |->
                       getShippingMethodTotals(cartOrOrder.shipping_methods[k], cartOrOrder,
                                               ShippingMethodTotalsOptions(TRUE))])

\* (total, item) => total + item.adjustments?.reduce(...) || 0
RECURSIVE AdjustmentsFold(_, _, _)
AdjustmentsFold(items, i, total) ==
    IF i > Len(items) THEN total
    ELSE AdjustmentsFold(items, i + 1,
             OrZero(Add(total, IF isDefined(items[i].adjustments)
                               THEN AmountSum(items[i].adjustments.v) ELSE NaN)))

getLineItemAdjustmentsTotal(cartOrOrder) ==
    IF Len(cartOrOrder.items) = 0 THEN Nr(0)
    ELSE AdjustmentsFold(cartOrOrder.items, 1, Nr(0))

\* lines 1014-1018
DiscountClamp(subtotal, discountTotal) ==
    IF subtotal.st # "ok" THEN subtotal
    ELSE IF Lt(subtotal.v, Nr(0))
    THEN Ok(rounded(MathMax(subtotal.v, discountTotal)), subtotal.log)
    ELSE Ok(rounded(MathMin(subtotal.v, discountTotal)), subtotal.log)

getDiscountTotal(cartOrOrder) ==
    DiscountClamp(getSubtotal(cartOrOrder, [excludeNonDiscounts |-> TRUE]),
                  MathRound(getLineItemAdjustmentsTotal(cartOrOrder)))

\* lines 986-989: subtotal - discountTotal
GiftCardable(subtotal, discountTotal) ==
    IF subtotal.st # "ok" THEN subtotal
    ELSE IF discountTotal.st # "ok" THEN After(subtotal.log, discountTotal)
    ELSE Ok(Sub(subtotal.v, discountTotal.v), subtotal.log \o discountTotal.log)

\* lines 992-996
GiftCardTotalsOf(cartOrOrder, giftCardable) ==
    IF giftCardable.st # "ok" THEN giftCardable
    ELSE After(giftCardable.log,
               getGiftCardTotals(giftCardable.v, cartOrOrder.region, cartOrOrder.gift_cards,
                                 cartOrOrder.gift_card_transactions))

getGiftCardTotal(cartOrOrder, opts) ==
    GiftCardTotalsOf(cartOrOrder,
        IF opts.gift_cardable.def THEN Ok(opts.gift_cardable.v, <<>>)
        ELSE GiftCardable(getSubtotal(cartOrOrder, [excludeNonDiscounts |-> FALSE]),
                          getDiscountTotal(cartOrOrder)))

NoGiftCardOptions == [gift_cardable |-> undefined]

\* lines 395-411: the tax lines of the return items of a swap cart
ReturnTaxLines(returns) ==
    IF \E k \in 1..Len(returns) : ~isDefined(returns[k].tax_lines)
    THEN Fail("UNEXPECTED_STATE", <<>>)
    ELSE Ok(Flat([k \in 1..Len(returns) |-> returns[k].tax_lines.v]), <<>>)

\* the provider's lines alone
WithoutReturnLines(fetched, returned) ==
    IF fetched.st # "ok" THEN fetched
    ELSE IF returned.st # "ok" THEN Fail(returned.st, fetched.log)
    ELSE Ok(fetched.v, fetched.log)

\* line 410: taxLines.concat(returnTaxLines)
WithReturnLines(fetched, returned) ==
    IF fetched.st # "ok" THEN fetched
    ELSE IF returned.st # "ok" THEN Fail(returned.st, fetched.log)
    ELSE Ok(fetched.v \o returned.v, fetched.log)

\* lines 391-411: the tax lines of a cart
CartTaxLines(cart, fetched) ==
    IF cart.type # "swap" THEN fetched
    ELSE WithReturnLines(fetched,
                         ReturnTaxLines(SelectSeq(cart.items, LAMBDA i : i.is_return)))

\* lines 361-412: the tax lines handed to the strategy
CollectTaxLines(cartOrOrder, calculationContext) ==
    IF isOrder(cartOrOrder)
    THEN Ok(Flat([k \in 1..Len(cartOrOrder.items) |-> cartOrOrder.items[k].tax_lines.v])
              \o Flat([k \in 1..Len(cartOrOrder.shipping_methods) |->
                         cartOrOrder.shipping_methods[k].tax_lines]),
            <<>>)
    ELSE CartTaxLines(cartOrOrder, getTaxLines(cartOrOrder.items, calculationContext))

\* the flat rate with the gift cards' tax taken off, as on the tax-lines path
LegacyTaxLessGiftCardTax(cartOrOrder, giftCardTotal, subtotal, shippingTotal, discountTotal, c) ==
    IF c.st # "ok" THEN Fail(c.st, c.log)
    ELSE Ok(rounded(Sub(Mul(Add(Sub(Sub(subtotal.v, discountTotal.v), giftCardTotal.total),
                                shippingTotal.v),
                            Div(cartOrOrder.tax_rate, Hundred)),
                        IF cartOrOrder.region.gift_cards_taxable
                        THEN giftCardTotal.tax_total ELSE Nr(0))),
            c.log)

\* lines 385-388
LegacyTaxFormula(cartOrOrder, giftCardTotal, subtotal, shippingTotal, discountTotal, c) ==
    IF c.st # "ok" THEN Fail(c.st, c.log)
    ELSE Ok(rounded(Mul(Add(Sub(Sub(subtotal.v, discountTotal.v), giftCardTotal.total),
                            shippingTotal.v),
                        Div(cartOrOrder.tax_rate, Hundred))),
            c.log)

LegacyTaxOf(cartOrOrder, giftCardTotal, subtotal, shippingTotal, discountTotal) ==
    LegacyTaxFormula(cartOrOrder, giftCardTotal, subtotal, shippingTotal, discountTotal,
                     Chain(<<subtotal, shippingTotal, discountTotal>>))

\* lines 382-388: the flat rate of the old tax system
LegacyTaxTotal(cartOrOrder, giftCardTotal) ==
    LegacyTaxOf(cartOrOrder, giftCardTotal,
                getSubtotal(cartOrOrder, [excludeNonDiscounts |-> FALSE]),
                getShippingTotal(cartOrOrder),
                getDiscountTotal(cartOrOrder))

\* the gift card total taken off the tax, whatever the region
LessGiftCardTotal(cartOrOrder, toReturn, giftCardTotal) ==
    Ok(rounded(Sub(toReturn.v, giftCardTotal.total)), toReturn.log)

\* the strategy's result rounded, the gift cards' tax left in
KeepingGiftCardTax(cartOrOrder, toReturn, giftCardTotal) ==
    Ok(rounded(toReturn.v), toReturn.log)

\* lines 420-424
LessGiftCardTax(cartOrOrder, toReturn, giftCardTotal) ==
    IF cartOrOrder.region.gift_cards_taxable
    THEN Ok(rounded(Sub(toReturn.v, giftCardTotal.tax_total)), toReturn.log)
    ELSE Ok(rounded(toReturn.v), toReturn.log)

\* lines 414-424
StrategyTaxOf(cartOrOrder, taxLines, calculationContext, giftCardTotal) ==
    IF taxLines.st # "ok" THEN taxLines
    ELSE After(taxLines.log,
               LessGiftCardTax(cartOrOrder,
                   calculate(cartOrOrder.items, taxLines.v, calculationContext),
                   giftCardTotal))

StrategyTaxTotal(cartOrOrder, calculationContext, giftCardTotal) ==
    StrategyTaxOf(cartOrOrder, CollectTaxLines(cartOrOrder, calculationContext),
                  calculationContext, giftCardTotal)

\* lines 361-424, after the gift card total is known
TaxTotalAfter(cartOrOrder, calculationContext, giftCardTotal) ==
    IF giftCardTotal.st # "ok" THEN giftCardTotal
    ELSE IF isOrder(cartOrOrder)
            /\ ~(\A k \in 1..Len(cartOrOrder.items) : isDefined(cartOrOrder.items[k].tax_lines))
    THEN Fail("UNEXPECTED_STATE", giftCardTotal.log)
    ELSE IF isOrder(cartOrOrder) /\ cartOrOrder.tax_rate # null
    THEN After(giftCardTotal.log, LegacyTaxTotal(cartOrOrder, giftCardTotal.v))
    ELSE After(giftCardTotal.log,
               StrategyTaxTotal(cartOrOrder, calculationContext, giftCardTotal.v))

\* the gate of the cart taken without regard to forceTaxes
getTaxTotalUnforced(cartOrOrder, forceTaxes) ==
    IF isCart(cartOrOrder) /\ ~cartOrOrder.region.automatic_taxes
    THEN Ok(null, <<>>)
    ELSE TaxTotalAfter(cartOrOrder, getCalculationContext(cartOrOrder, NoContextOptions),
                       getGiftCardTotal(cartOrOrder, NoGiftCardOptions))

getTaxTotal(cartOrOrder, forceTaxes) ==
    IF isCart(cartOrOrder) /\ ~forceTaxes /\ ~cartOrOrder.region.automatic_taxes
    THEN Ok(null, <<>>)
    ELSE TaxTotalAfter(cartOrOrder, getCalculationContext(cartOrOrder, NoContextOptions),
                       getGiftCardTotal(cartOrOrder, NoGiftCardOptions))

\* the sum with the discount added instead of subtracted
TotalPlusDiscount(subtotal, taxTotal, discountTotal, giftCardTotal, shippingTotal, c) ==
    IF c.st # "ok" THEN Fail(c.st, c.log)
    ELSE Ok(Sub(Add(Add(Add(subtotal.v, OrZero(taxTotal.v)), shippingTotal.v),
                    discountTotal.v),
                giftCardTotal.v.total),
            c.log)

\* lines 147-149
TotalFormula(subtotal, taxTotal, discountTotal, giftCardTotal, shippingTotal, c) ==
    IF c.st # "ok" THEN Fail(c.st, c.log)
    ELSE Ok(Sub(Sub(Add(Add(subtotal.v, OrZero(taxTotal.v)), shippingTotal.v),
                    discountTotal.v),
                giftCardTotal.v.total),
            c.log)

TotalOf(subtotal, taxTotal, discountTotal, giftCardTotal, shippingTotal) ==
    TotalFormula(subtotal, taxTotal, discountTotal, giftCardTotal, shippingTotal,
                 Chain(<<subtotal, taxTotal, discountTotal, giftCardTotal, shippingTotal>>))

getTotal(cartOrOrder, options) ==
    TotalOf(getSubtotal(cartOrOrder, [excludeNonDiscounts |-> FALSE]),
            getTaxTotal(cartOrOrder, options.force_taxes),
            getDiscountTotal(cartOrOrder),
            IF options.exclude_gift_cards
            THEN Ok([total |-> Nr(0), tax_total |-> Nr(0)], <<>>)
            ELSE getGiftCardTotal(cartOrOrder, NoGiftCardOptions),
            getShippingTotal(cartOrOrder))

\* lines 957-967
getGiftCardableAmount(cartOrOrder) ==
    IF cartOrOrder.region.gift_cards_taxable
    THEN GiftCardable(getSubtotal(cartOrOrder, [excludeNonDiscounts |-> FALSE]),
                      getDiscountTotal(cartOrOrder))
    ELSE getTotal(cartOrOrder, [exclude_gift_cards |-> TRUE, force_taxes |-> FALSE])

---------------------------------------------------------------------------
(* TotalsService: refunds *)

getRefundedTotal(order) ==
    IF ~isDefined(order.refunds) THEN Nr(0)
    ELSE rounded(Sum([k \in 1..Len(order.refunds.v) |-> Nr(order.refunds.v[k])]))

\* allocationMap[lineItem.id]?.discount?.unit_amount || 0
UnitAmount(lineItem, allocationMap) ==
    OrZero(IF lineItem.id \in DOMAIN allocationMap
           THEN allocationMap[lineItem.id].discount.unit_amount ELSE Nr(0))

\* the discount of one unit, whatever the quantity
RefundDiscountOfOneUnit(order, lineItem) ==
    UnitAmount(lineItem, getAllocationMap(order, NoContextOptions))

\* lines 512-514
RefundDiscountAmount(order, lineItem) ==
    Mul(UnitAmount(lineItem, getAllocationMap(order, NoContextOptions)), Nr(lineItem.quantity))

\* (unit_price - taxAmountIncludedInPrice) * quantity - discountAmount
RefundLineSubtotal(order, lineItem, taxRate) ==
    LET includesTax == featureFlag /\ lineItem.includes_tax
        taxAmountIncludedInPrice ==
            IF ~includesTax THEN Nr(0)
            ELSE MathRound(calculatePriceTaxAmount(Nr(lineItem.unit_price), taxRate, includesTax))
    IN  Sub(Mul(Sub(Nr(lineItem.unit_price), taxAmountIncludedInPrice), Nr(lineItem.quantity)),
            RefundDiscountAmount(order, lineItem))

\* the tax at the sum of the rates, rounded once, added to the subtotal
WithSummedRateTax(lineSubtotal, lines) ==
    Add(lineSubtotal, rounded(Mul(lineSubtotal, RateSum(lines))))

\* lines 567-572: the tax of each line on the subtotal, added to it
WithLineTaxes(lineSubtotal, lines) ==
    Add(lineSubtotal,
        Sum([k \in 1..Len(lines) |->
               rounded(Mul(lineSubtotal, Div(Nr(lines[k].rate), Hundred)))]))

getLineItemRefund(order, lineItem) ==
    IF order.tax_rate # null
    THEN Ok(rounded(Mul(RefundLineSubtotal(order, lineItem, Div(order.tax_rate, Hundred)),
                        Add(Nr(1), Div(order.tax_rate, Hundred)))),
            <<>>)
    ELSE IF ~isDefined(lineItem.tax_lines) THEN Fail("UNEXPECTED_STATE", <<>>)
    ELSE Ok(WithLineTaxes(RefundLineSubtotal(order, lineItem, RateSum(lineItem.tax_lines.v)),
                          lineItem.tax_lines.v),
            <<>>)

\* the ids of the order's items and of its swaps' and claims' additional items
RefundableIds(order) == {Merged(order)[k].id : k \in 1..Len(Merged(order))}

\* the refund computed without the item being looked up on the order
RefundOfUnchecked(order, lineItem) == getLineItemRefund(order, lineItem)

\* lines 602-612: each requested item is checked, then its refund computed
RefundOf(order, lineItem) ==
    IF lineItem.id \notin RefundableIds(order) THEN Fail("INVALID_DATA", <<>>)
    ELSE getLineItemRefund(order, lineItem)

RefundSum(refunds, c) ==
    IF c.st # "ok" THEN Fail(c.st, c.log)
    ELSE Ok(rounded(Sum([k \in 1..Len(refunds) |-> refunds[k].v])), c.log)

SummedRefunds(refunds) == RefundSum(refunds, Chain(refunds))

getRefundTotal(order, lineItems) ==
    SummedRefunds([k \in 1..Len(lineItems) |-> RefundOf(order, lineItems[k])])

---------------------------------------------------------------------------
(* inputs: the carts and orders the operations are called on *)

MaxItems == 2

Adj(discount_id, amount) == [amount |-> amount, discount_id |-> discount_id]

Shape(unit_price, quantity, allow_discounts, includes_tax, is_return, variant_id, rates, adjustments) ==
    [includes_tax |-> includes_tax, unit_price |-> unit_price, quantity |-> quantity,
     adjustments |-> adjustments, allow_discounts |-> allow_discounts, is_return |-> is_return,
     variant_id |-> variant_id, rates |-> rates]

\* the line item of the given shape and id, its tax lines pointing back at it
LineItem(shape, id) ==
    [id |-> id,
     includes_tax |-> shape.includes_tax,
     unit_price |-> shape.unit_price,
     quantity |-> shape.quantity,
     adjustments |-> shape.adjustments,
     allow_discounts |-> shape.allow_discounts,
     is_return |-> shape.is_return,
     tax_lines |-> IF shape.rates.def
                   THEN Some([k \in 1..Len(shape.rates.v) |->
                                [kind |-> "item", rate |-> shape.rates.v[k], ref |-> id]])
                   ELSE undefined,
     variant_id |-> shape.variant_id]

\* the order item of the legacy example: 1000 with a discount of 100
Discounted == Shape(1000, 1, TRUE, FALSE, FALSE, "v1", Some(<<>>), Some(<<Adj("d1", 100)>>))

\* two units at 1000, one tax line of 10 %, a discount of 200
Taxed == Shape(1000, 2, TRUE, FALSE, FALSE, "v1", Some(<<10>>), Some(<<Adj("d1", 200)>>))

\* not discountable, with a custom adjustment
NonDiscountable == Shape(500, 1, FALSE, FALSE, FALSE, "v1", Some(<<>>), Some(<<Adj("null", 20)>>))

\* neither tax lines nor adjustments joined
Unjoined == Shape(300, 1, TRUE, FALSE, FALSE, "v1", undefined, undefined)

\* no tax lines joined and no variant (a custom item)
UnjoinedCustom == Shape(300, 1, TRUE, FALSE, FALSE, "null", undefined, Some(<<>>))

\* price including tax
Inclusive == Shape(220, 1, TRUE, TRUE, FALSE, "v1", Some(<<10>>), Some(<<>>))

\* a return item without tax lines
UnjoinedReturn == Shape(300, 1, TRUE, FALSE, TRUE, "v1", undefined, Some(<<>>))

\* a negative adjustment
Surcharged == Shape(300, 1, TRUE, FALSE, FALSE, "v1", Some(<<>>), Some(<<Adj("d1", -50)>>))

\* an adjustment larger than the line
OverDiscounted == Shape(300, 1, TRUE, FALSE, FALSE, "v1", Some(<<>>), Some(<<Adj("d1", 500)>>))

\* a return item with a negative price and its tax lines
Returned == Shape(-400, 1, TRUE, FALSE, TRUE, "v1", Some(<<10>>), Some(<<Adj("d1", 30)>>))

ItemShapes ==
    { Taxed, NonDiscountable, Unjoined, UnjoinedCustom, Inclusive,
      UnjoinedReturn, Surcharged, OverDiscounted, Returned }

\* the item lists of at most n items, the k-th item having id k
ItemLists(shapes, n) ==
    UNION { { [k \in 1..len |-> LineItem(f[k], k)] : f \in [1..len -> shapes] } : len \in 0..n }

Method(id, price, includes_tax, rates) ==
    [price |-> price, id |-> id, includes_tax |-> includes_tax,
     tax_lines |-> [k \in 1..Len(rates) |-> [kind |-> "shipping", rate |-> rates[k], ref |-> id]]]

ShippingChoices ==
    { <<>>, <<Method(1, 50, FALSE, <<>>)>>, <<Method(1, 50, FALSE, <<10>>)>>,
      <<Method(1, 50, TRUE, <<10>>)>> }

Discount(id, type) == [id |-> id, type |-> type]

DiscountChoices ==
    { <<>>, <<Discount("d1", "percentage")>>,
      <<Discount("fs", FREE_SHIPPING), Discount("d1", "percentage")>> }

Region(automatic_taxes, gift_cards_taxable) ==
    [gift_cards_taxable |-> gift_cards_taxable, tax_rate |-> 25,
     automatic_taxes |-> automatic_taxes]

CartOrOrder(object, type, tax_rate, region, items, discounts, shipping_methods, gift_cards) ==
    [object |-> object, items |-> items, shipping_methods |-> shipping_methods, region |-> region,
     tax_rate |-> tax_rate, swaps |-> <<>>, claims |-> <<>>,
     discounts |-> discounts, type |-> type,
     gift_cards |-> gift_cards, gift_card_transactions |-> <<>>, refunds |-> undefined]

Kinds ==
    { [object |-> "cart", tax_rate |-> null, type |-> "default", automatic_taxes |-> TRUE],
      [object |-> "cart", tax_rate |-> null, type |-> "default", automatic_taxes |-> FALSE],
      [object |-> "cart", tax_rate |-> null, type |-> "swap", automatic_taxes |-> TRUE],
      [object |-> "cart", tax_rate |-> null, type |-> "swap", automatic_taxes |-> FALSE],
      [object |-> "order", tax_rate |-> null, type |-> "default", automatic_taxes |-> TRUE],
      [object |-> "order", tax_rate |-> Nr(25), type |-> "default", automatic_taxes |-> TRUE] }

\* a cart without automatic taxes, a swap cart, an order of each tax system
ItemKinds == { k \in Kinds : isCart(k) => (k.type = "swap" <=> k.automatic_taxes) }

\* every item list, in a cart or order with one discount, one taxed shipping
\* method and one gift card
VariedItems ==
    { CartOrOrder(k.object, k.type, k.tax_rate, Region(k.automatic_taxes, TRUE), items,
                  <<Discount("d1", "percentage")>>, <<Method(1, 50, FALSE, <<10>>)>>, <<300>>) :
        k \in ItemKinds, items \in ItemLists(ItemShapes, MaxItems) }

\* every kind, region, discount list, shipping method and gift card, around
\* a few item lists
VariedContext ==
    { CartOrOrder(k.object, k.type, k.tax_rate, Region(k.automatic_taxes, taxable), items,
                  discounts, methods, cards) :
        k \in Kinds, taxable \in BOOLEAN,
        items \in { <<LineItem(Discounted, 1)>>,
                    <<LineItem(Taxed, 1), LineItem(Inclusive, 2)>>,
                    <<LineItem(Returned, 1), LineItem(NonDiscountable, 2)>> },
        discounts \in DiscountChoices, methods \in ShippingChoices,
        cards \in {<<>>, <<300>>} }

---------------------------------------------------------------------------
(* the state machine: one action per operation of the service, each *)
(* behaviour being one call on the inputs drawn by Init             *)

NoArg == [none |-> TRUE]

Start ==
    /\ featureFlag \in BOOLEAN
    /\ providerRates \in {<<>>, <<10>>}
    /\ op = "init"
    /\ arg = NoArg
    /\ res = Ok(NoValue, <<>>)
    /\ callerContext = NoContext

Init == x \in VariedItems \cup VariedContext /\ Start

Called(name, a, r) ==
    /\ op = "init"
    /\ op' = name
    /\ arg' = a
    /\ res' = r
    /\ UNCHANGED <<x, featureFlag, providerRates, callerContext>>

\* a call that is passed the caller's calculation context, and what the
\* context object holds when the call is over
CalledWith(name, a, r, after) ==
    /\ op = "init"
    /\ op' = name
    /\ arg' = a
    /\ res' = r
    /\ callerContext' = after
    /\ UNCHANGED <<x, featureFlag, providerRates>>

GetTotal ==
    \E e \in BOOLEAN, f \in BOOLEAN :
        LET options == [exclude_gift_cards |-> e, force_taxes |-> f]
        IN  Called("getTotal", options, getTotal(x, options))

GetSubtotal ==
    \E e \in BOOLEAN :
        LET opts == [excludeNonDiscounts |-> e]
        IN  Called("getSubtotal", opts, getSubtotal(x, opts))

GetShippingTotal == Called("getShippingTotal", NoArg, getShippingTotal(x))

GetShippingMethodTotals ==
    \E k \in 1..Len(x.shipping_methods), include_tax \in BOOLEAN :
        Called("getShippingMethodTotals", [include_tax |-> include_tax, method |-> k],
               getShippingMethodTotals(x.shipping_methods[k], x,
                                       ShippingMethodTotalsOptions(include_tax)))

GetTaxTotal ==
    \E forceTaxes \in BOOLEAN :
        Called("getTaxTotal", [forceTaxes |-> forceTaxes], getTaxTotal(x, forceTaxes))

GetDiscountTotal == Called("getDiscountTotal", NoArg, getDiscountTotal(x))

GetGiftCardTotal ==
    Called("getGiftCardTotal", NoArg, getGiftCardTotal(x, NoGiftCardOptions))

Next ==
    \/ GetTotal
    \/ GetSubtotal
    \/ GetShippingTotal
    \/ GetShippingMethodTotals
    \/ GetTaxTotal
    \/ GetDiscountTotal
    \/ GetGiftCardTotal

Spec == Init /\ [][Next]_vars

---------------------------------------------------------------------------
(* refunds: orders with swaps, claims and earlier refunds *)

\* three units, a discount that does not divide by the quantity
Uneven == Shape(500, 3, TRUE, FALSE, FALSE, "v1", Some(<<>>), Some(<<Adj("d1", 100)>>))

\* a line whose quantity is zero
ZeroQuantity == Shape(500, 0, TRUE, FALSE, FALSE, "v1", Some(<<>>), Some(<<Adj("d1", 100)>>))

\* two tax lines, on a discounted subtotal whose taxes do not round alike
\* line by line and in one sum
TwoRates == Shape(1000, 2, TRUE, FALSE, FALSE, "v1", Some(<<10, 5>>), Some(<<Adj("d1", 196)>>))

\* three units at 500 without discount
Undiscounted == Shape(500, 3, TRUE, FALSE, FALSE, "v1", Some(<<>>), Some(<<>>))

RefundShapes == { Uneven, ZeroQuantity, TwoRates, Undiscounted, Unjoined, Inclusive }

\* nothing; a swap or a claim with a new item; a swap item reusing the id of
\* the order's first item
Extras ==
    { [swaps |-> <<>>, claims |-> <<>>],
      [swaps |-> <<[additional_items |-> <<LineItem(Uneven, 8)>>]>>, claims |-> <<>>],
      [swaps |-> <<>>, claims |-> <<[additional_items |-> <<LineItem(Unjoined, 9)>>]>>],
      [swaps |-> <<[additional_items |-> <<LineItem(Uneven, 1)>>]>>, claims |-> <<>>] }

RefundOrder(rate, items, discounts, e, refunds) ==
    [CartOrOrder("order", "default", rate, Region(TRUE, FALSE), items, discounts, <<>>, <<>>)
       EXCEPT !.swaps = e.swaps, !.claims = e.claims, !.refunds = refunds]

\* every item list on a discounted order without refunds; around a few item
\* lists, the orders with and without discount and earlier refunds
RefundOrders ==
    { RefundOrder(rate, items, <<Discount("d1", "fixed")>>, e, undefined) :
        rate \in {null, Nr(20)}, items \in ItemLists(RefundShapes, MaxItems), e \in Extras }
    \cup
    { RefundOrder(rate, items, discounts, e, refunds) :
        rate \in {null, Nr(20)},
        items \in { <<LineItem(Uneven, 1)>>, <<LineItem(TwoRates, 1), LineItem(Inclusive, 2)>> },
        discounts \in {<<>>, <<Discount("d1", "fixed")>>},
        e \in Extras, refunds \in {undefined, Some(<<100, 50>>)} }

\* a line item that is not of the order
Stranger == LineItem(Undiscounted, 99)

\* the line items a refund can be requested for
Requestable(order) == {Merged(order)[k] : k \in 1..Len(Merged(order))} \cup {Stranger}

\* the orders have no shipping methods: the tax provider is never asked
InitRefund ==
    /\ x \in RefundOrders
    /\ featureFlag \in BOOLEAN
    /\ providerRates = <<>>
    /\ op = "init"
    /\ arg = NoArg
    /\ res = Ok(NoValue, <<>>)
    /\ callerContext = NoContext

GetRefundedTotal == Called("getRefundedTotal", NoArg, Ok(getRefundedTotal(x), <<>>))

GetLineItemRefund ==
    \E lineItem \in Requestable(x) :
        Called("getLineItemRefund", [lineItem |-> lineItem], getLineItemRefund(x, lineItem))

GetRefundTotal ==
    \E len \in 0..2 : \E lineItems \in [1..len -> Requestable(x)] :
        Called("getRefundTotal", [lineItems |-> lineItems], getRefundTotal(x, lineItems))

NextRefund ==
    \/ GetRefundedTotal
    \/ GetLineItemRefund
    \/ GetRefundTotal
    \/ GetTotal
    \/ GetSubtotal
    \/ GetShippingTotal
    \/ GetTaxTotal
    \/ GetDiscountTotal

SpecRefund == InitRefund /\ [][NextRefund]_vars

---------------------------------------------------------------------------
(* line items: allocation map, adjustments and per-line totals *)

\* adjustments of two discounts and custom ones
Mixed ==
    Shape(1000, 3, TRUE, FALSE, FALSE, "v1", Some(<<10>>),
          Some(<<Adj("d1", 100), Adj("d2", 40), Adj("null", 20), Adj("d1", 11)>>))

\* discount and custom adjustments on an item that allows no discount
Barred ==
    Shape(500, 1, FALSE, FALSE, FALSE, "v1", Some(<<>>),
          Some(<<Adj("d1", 50), Adj("null", 20)>>))

LineShapes == { Mixed, Barred, Unjoined, Inclusive, Taxed, Discounted }

DiscountSeqs ==
    { <<>>, <<Discount("fs", FREE_SHIPPING)>>, <<Discount("d1", "percentage")>>,
      <<Discount("fs", FREE_SHIPPING), Discount("d1", "percentage")>>,
      <<Discount("d2", "fixed"), Discount("d1", "percentage")>> }

\* nothing; a swap item reusing the id of the first item; a claim with a new item
LineExtras ==
    { [swaps |-> <<>>, claims |-> <<>>],
      [swaps |-> <<[additional_items |-> <<LineItem(Uneven, 1)>>]>>, claims |-> <<>>],
      [swaps |-> <<>>, claims |-> <<[additional_items |-> <<LineItem(Mixed, 7)>>]>>] }

LineKinds == { k \in Kinds : k.type = "default" /\ k.automatic_taxes }

LineInput(k, items, discounts, e) ==
    [CartOrOrder(k.object, k.type, k.tax_rate, Region(TRUE, FALSE), items, discounts, <<>>, <<>>)
       EXCEPT !.swaps = e.swaps, !.claims = e.claims]

\* every item list under one discount; around a few item lists, every
\* discount sequence and, on orders, the swaps and claims
LineInputs ==
    { LineInput(k, items, <<Discount("d1", "percentage")>>, [swaps |-> <<>>, claims |-> <<>>]) :
        k \in LineKinds, items \in ItemLists(LineShapes, MaxItems) }
    \cup
    { LineInput(c.k, items, discounts, c.e) :
        c \in { c \in [k : LineKinds, e : LineExtras] :
                  isCart(c.k) => c.e.swaps = <<>> /\ c.e.claims = <<>> },
        items \in { <<LineItem(Mixed, 1)>>, <<LineItem(Barred, 1), LineItem(Mixed, 2)>>,
                    <<LineItem(Taxed, 1), LineItem(Unjoined, 2)>> },
        discounts \in DiscountSeqs }

InitLines == x \in LineInputs /\ Start

GetAllocationMap ==
    \E exclude_discounts \in BOOLEAN :
        LET options == [NoContextOptions EXCEPT !.exclude_discounts = exclude_discounts]
        IN  Called("getAllocationMap", options, Ok(getAllocationMap(x, options), <<>>))

GetLineItemAdjustmentsTotal ==
    Called("getLineItemAdjustmentsTotal", NoArg, Ok(getLineItemAdjustmentsTotal(x), <<>>))

GetLineItemTotals ==
    \E k \in 1..Len(x.items), include_tax \in BOOLEAN, use_tax_lines \in BOOLEAN :
        Called("getLineItemTotals",
               [item |-> k, include_tax |-> include_tax, use_tax_lines |-> use_tax_lines],
               getLineItemTotals(x.items[k], x,
                                 LineItemTotalsOptions(include_tax, use_tax_lines, FALSE)))

NextLines ==
    \/ GetAllocationMap
    \/ GetLineItemAdjustmentsTotal
    \/ GetLineItemTotals
    \/ GetDiscountTotal

SpecLines == InitLines /\ [][NextLines]_vars

---------------------------------------------------------------------------
(* taxes and gift cards: swap carts and orders, return items, gift cards *)

TaxShapes == { Taxed, Returned, UnjoinedReturn, Inclusive }

\* a return item without variant whose tax lines are not joined
UnjoinedCustomReturn == Shape(300, 1, TRUE, FALSE, TRUE, "null", undefined, Some(<<>>))

TaxKinds ==
    { [object |-> o, tax_rate |-> r, type |-> t] :
        o \in {"cart", "order"}, r \in {null, Nr(25)}, t \in {"default", "swap"} }

\* no gift card; a gift card; a gift card with an amount already spent
GiftCardChoices ==
    { [gift_cards |-> <<>>, gift_card_transactions |-> <<>>],
      [gift_cards |-> <<300>>, gift_card_transactions |-> <<>>],
      [gift_cards |-> <<300>>, gift_card_transactions |-> <<120>>] }

\* a cart has no tax_rate; the legacy orders are of the default type
TaxInputs ==
    { [CartOrOrder(k.object, k.type, k.tax_rate, Region(TRUE, taxable), items,
                   <<Discount("d1", "percentage")>>, <<Method(1, 50, FALSE, <<10>>)>>,
                   g.gift_cards)
         EXCEPT !.gift_card_transactions = g.gift_card_transactions] :
        k \in { k \in TaxKinds : k.tax_rate # null => (isOrder(k) /\ k.type = "default") },
        taxable \in BOOLEAN,
        items \in ItemLists(TaxShapes, MaxItems)
                    \cup { <<LineItem(Taxed, 1), LineItem(UnjoinedCustomReturn, 2)>> },
        g \in GiftCardChoices }

InitTax == x \in TaxInputs /\ Start

GetGiftCardableAmount ==
    Called("getGiftCardableAmount", NoArg, getGiftCardableAmount(x))

NextTax ==
    \/ GetTaxTotal
    \/ GetTotal
    \/ GetGiftCardTotal
    \/ GetGiftCardableAmount

SpecTax == InitTax /\ [][NextTax]_vars

---------------------------------------------------------------------------
(* breakdowns computed in a calculation context the caller passes *)

\* the contexts a caller builds for the cart or order, with and without its
\* shipping methods
CallerContexts(cartOrOrder) ==
    { getCalculationContext(cartOrOrder, [NoContextOptions EXCEPT !.exclude_shipping = e]) :
        e \in BOOLEAN }

InitContext == x \in VariedContext /\ Start

GetShippingMethodTotalsIn ==
    \E k \in 1..Len(x.shipping_methods), include_tax \in BOOLEAN, c \in CallerContexts(x) :
        LET opts == [ShippingMethodTotalsOptions(include_tax)
                       EXCEPT !.calculation_context = Some(c)]
        IN  CalledWith("getShippingMethodTotals",
                       [include_tax |-> include_tax, calculation_context |-> Some(c), method |-> k],
                       getShippingMethodTotals(x.shipping_methods[k], x, opts),
                       ContextAfterShippingMethodTotals(x.shipping_methods[k], opts))

GetLineItemTotalsIn ==
    \E k \in 1..Len(x.items), include_tax \in BOOLEAN, c \in CallerContexts(x) :
        LET options == [LineItemTotalsOptions(include_tax, FALSE, FALSE)
                          EXCEPT !.calculation_context = Some(c)]
        IN  CalledWith("getLineItemTotals",
                       [item |-> k, include_tax |-> include_tax, calculation_context |-> Some(c)],
                       getLineItemTotals(x.items[k], x, options),
                       ContextAfterLineItemTotals(options))

NextContext ==
    \/ GetShippingMethodTotalsIn
    \/ GetLineItemTotalsIn

SpecContext == InitContext /\ [][NextContext]_vars

---------------------------------------------------------------------------
(* the collaborator calls of one operation, the tax provider answering or *)
(* rejecting                                                              *)

AwaitShapes == { Taxed, Unjoined, Discounted }

\* two shipping methods, one with tax lines of its own, in either order
AwaitMethods ==
    { <<Method(1, 50, FALSE, <<>>), Method(2, 80, FALSE, <<10>>)>>,
      <<Method(2, 80, FALSE, <<10>>), Method(1, 50, FALSE, <<>>)>>,
      <<Method(2, 80, FALSE, <<10>>)>> }

AwaitInputs ==
    { CartOrOrder(k.object, k.type, k.tax_rate, Region(TRUE, TRUE), items,
                  <<Discount("d1", "percentage")>>, methods, <<300>>) :
        k \in { k \in Kinds : k.automatic_taxes /\ k.type = "default" },
        items \in ItemLists(AwaitShapes, MaxItems), methods \in AwaitMethods }

InitAwait ==
    /\ x \in AwaitInputs
    /\ featureFlag \in BOOLEAN
    /\ providerRates \in {<<>>, <<10>>, Unavailable}
    /\ op = "init"
    /\ arg = NoArg
    /\ res = Ok(NoValue, <<>>)
    /\ callerContext = NoContext

GetRefundTotalOfOrder == isOrder(x) /\ GetRefundTotal

NextAwait ==
    \/ GetTotal
    \/ GetSubtotal
    \/ GetShippingTotal
    \/ GetTaxTotal
    \/ GetRefundTotalOfOrder

SpecAwait == InitAwait /\ [][NextAwait]_vars

---------------------------------------------------------------------------
(* rounding: the values n/4 around zero *)

MaxQuarters == 60

InitRounded ==
    /\ x = CartOrOrder("cart", "default", null, Region(TRUE, FALSE), <<>>, <<>>, <<>>, <<>>)
    /\ Start

Rounded ==
    \E n \in -MaxQuarters..MaxQuarters :
        Called("rounded", [value |-> Num(n, 4)], Ok(rounded(Num(n, 4)), <<>>))

SpecRounded == InitRounded /\ [][Rounded]_vars

---------------------------------------------------------------------------
(* properties *)

AllItems == [excludeNonDiscounts |-> FALSE]

Discountable == [excludeNonDiscounts |-> TRUE]

\* C1: getTotal(x, options) is getSubtotal(x) + (getTaxTotal(x, force_taxes),
\* 0 when null) + getShippingTotal(x) - getDiscountTotal(x) - G, with G the
\* gift card total, or 0 when exclude_gift_cards is set; it fails exactly
\* when one of the totals it is made of fails.
C1_TotalDecomposition ==
    op = "getTotal" =>
        LET s == getSubtotal(x, AllItems)
            t == getTaxTotal(x, arg.force_taxes)
            sh == getShippingTotal(x)
            d == getDiscountTotal(x)
            g == getGiftCardTotal(x, NoGiftCardOptions)
            G == IF arg.exclude_gift_cards THEN Nr(0) ELSE g.v.total
            partsOk == /\ s.st = "ok" /\ t.st = "ok" /\ sh.st = "ok" /\ d.st = "ok"
                       /\ (arg.exclude_gift_cards \/ g.st = "ok")
        IN  IF partsOk
            THEN /\ res.st = "ok"
                 /\ res.v = Sub(Sub(Add(Add(s.v, NullishZero(t.v)), sh.v), d.v), G)
            ELSE res.st # "ok"

\* a total with a null tax total, gift cards left out although the cart has
\* some, a discount and a shipping total
C1_Witness ==
    /\ op = "getTotal" /\ res.st = "ok" /\ arg.exclude_gift_cards
    /\ getTaxTotal(x, arg.force_taxes).v = null
    /\ Truthy(getGiftCardTotal(x, NoGiftCardOptions).v.total)
    /\ Truthy(getDiscountTotal(x).v)
    /\ Truthy(getShippingTotal(x).v)

\* C2: the discount total d is at most the discountable subtotal s in
\* magnitude and is zero or of the sign of s.
C2_DiscountClamp ==
    (op = "getDiscountTotal" /\ res.st = "ok") =>
        LET s == getSubtotal(x, Discountable).v
            d == res.v
        IN  /\ Abs(d.n) <= Abs(s.n)
            /\ d.n = 0 \/ Sign(d.n) = Sign(s.n)

\* C3: getTaxTotal on an order of the old tax system calls neither the tax
\* provider nor the calculation strategy.
C3_LegacyCallsNoTaxCollaborator ==
    (op = "getTaxTotal" /\ isOrder(x) /\ x.tax_rate # null) =>
        /\ Calls(res.log, "getTaxLines") = {}
        /\ Calls(res.log, "calculate") = {}

\* C4: getTaxTotal on an order of the tax-lines system with an item whose
\* tax lines are not joined fails with UNEXPECTED_STATE.
C4_UnjoinedItemIsUnexpectedState ==
    (/\ op = "getTaxTotal" /\ isOrder(x) /\ x.tax_rate = null
     /\ \E k \in 1..Len(x.items) : ~isDefined(x.items[k].tax_lines))
        => res.st = "UNEXPECTED_STATE"

\* C5: getRefundTotal fails with INVALID_DATA whenever a requested line item
\* is not of the order, its swaps or its claims.
C5_StrangerIsInvalidData ==
    (/\ op = "getRefundTotal"
     /\ \E k \in 1..Len(arg.lineItems) : arg.lineItems[k].id \notin RefundableIds(x))
        => res.st = "INVALID_DATA"

Strangers(order, lineItems) ==
    {k \in 1..Len(lineItems) : lineItems[k].id \notin RefundableIds(order)}

FirstStranger(order, lineItems) ==
    CHOOSE k \in Strangers(order, lineItems) : \A j \in Strangers(order, lineItems) : k <= j

\* C5: getRefundTotal returns no total when a requested line item is not of
\* the order, its swaps or its claims: it fails with INVALID_DATA, unless an
\* item requested before the first such item has no tax_lines on an order
\* with a null tax_rate, the refund of that item failing with
\* UNEXPECTED_STATE first.
C5_StrangerFailsRefund ==
    (op = "getRefundTotal" /\ Strangers(x, arg.lineItems) # {}) =>
        IF \E j \in 1..(FirstStranger(x, arg.lineItems) - 1) :
               x.tax_rate = null /\ ~isDefined(arg.lineItems[j].tax_lines)
        THEN res.st = "UNEXPECTED_STATE"
        ELSE res.st = "INVALID_DATA"

\* the stranger requested after an item of the order whose refund is computed
C5_Witness ==
    /\ op = "getRefundTotal" /\ Len(arg.lineItems) = 2
    /\ Strangers(x, arg.lineItems) = {2}
    /\ getLineItemRefund(x, arg.lineItems[1]).st = "ok"
    /\ res.st = "INVALID_DATA"

\* C6: on a cart with a FREE_SHIPPING discount every shipping method gets
\* total = subtotal = tax_total = 0.
C6_FreeShippingOverride ==
    (/\ op = "getShippingMethodTotals" /\ isCart(x)
     /\ \E k \in 1..Len(x.discounts) : x.discounts[k].type = FREE_SHIPPING)
        => /\ res.st = "ok"
           /\ res.v.total = Nr(0)
           /\ res.v.subtotal = Nr(0)
           /\ res.v.tax_total = Nr(0)

\* a taxed method of a free-shipping cart: the tax was computed, then zeroed
C6_Witness ==
    /\ op = "getShippingMethodTotals" /\ isCart(x) /\ arg.include_tax
    /\ \E k \in 1..Len(x.discounts) : x.discounts[k].type = FREE_SHIPPING
    /\ res.st = "ok"
    /\ Truthy(res.v.original_tax_total)
    /\ res.v.tax_total = Nr(0)

\* value is exactly halfway between two integers
IsHalf(value) == value.d = 2

\* r is an integer nearest to value
Nearest(r, value) ==
    /\ IsInteger(r)
    /\ 2 * Abs(r.n * value.d - value.n) <= value.d

\* C7 as stated: the nearest integer, the one farther from zero at a half.
C7_HalfAwayFromZero ==
    op = "rounded" =>
        /\ Nearest(res.v, arg.value)
        /\ IsHalf(arg.value) => Abs(res.v.n) * 2 > Abs(arg.value.n)

\* C7: rounded(value) is the nearest integer, and at a half the greater of
\* the two (rounded(-2.5) = -2, rounded(2.5) = 3).
C7_HalfUp ==
    op = "rounded" =>
        /\ Nearest(res.v, arg.value)
        /\ IsHalf(arg.value) => res.v.n * 2 > arg.value.n

\* rounded(-2.5) = -2
C7_Witness == op = "rounded" /\ arg.value = Num(-5, 2) /\ res.v = Nr(-2)

\* C8: with integer inputs every top-level total is an integer, the tax
\* total an integer or null.
C8_RoundingClosure ==
    res.st = "ok" =>
        /\ op \in {"getTotal", "getSubtotal", "getDiscountTotal", "getShippingTotal",
                   "getRefundTotal", "getRefundedTotal"} => IsInteger(res.v)
        /\ op = "getTaxTotal" => IsInteger(res.v) \/ res.v = null

\* the flat-rate tax of a legacy order
LegacyExpected(order) ==
    rounded(Mul(Add(Sub(Sub(getSubtotal(order, AllItems).v, getDiscountTotal(order).v),
                        getGiftCardTotal(order, NoGiftCardOptions).v.total),
                    getShippingTotal(order).v),
                Div(order.tax_rate, Hundred)))

TaxLinesJoined(order) == \A k \in 1..Len(order.items) : isDefined(order.items[k].tax_lines)

\* C9 as stated: every order with a tax_rate gets the flat-rate tax.
C9_LegacyTaxOfEveryOrder ==
    (op = "getTaxTotal" /\ isOrder(x) /\ x.tax_rate # null) =>
        /\ res.st = "ok"
        /\ res.v = LegacyExpected(x)

\* C9: an order with a tax_rate whose items all have their tax lines joined
\* gets rounded((subtotal - discount - gift cards + shipping) * tax_rate / 100),
\* the gift cards' tax not taken off; with an unjoined item the call fails
\* with UNEXPECTED_STATE. 25 % of 1000 - 100 - 0 + 50 is 238.
C9_LegacyTaxTotal ==
    (op = "getTaxTotal" /\ isOrder(x) /\ x.tax_rate # null) =>
        /\ TaxLinesJoined(x) => res.st = "ok" /\ res.v = LegacyExpected(x)
        /\ ~TaxLinesJoined(x) => res.st = "UNEXPECTED_STATE"
        /\ (/\ TaxLinesJoined(x) /\ x.tax_rate = Nr(25)
            /\ getSubtotal(x, AllItems).v = Nr(1000)
            /\ getDiscountTotal(x).v = Nr(100)
            /\ getShippingTotal(x).v = Nr(50)
            /\ getGiftCardTotal(x, NoGiftCardOptions).v.total = Nr(0)) => res.v = Nr(238)

\* a legacy order of a region taxing gift cards, the gift card carrying tax
C9_Witness ==
    /\ op = "getTaxTotal" /\ isOrder(x) /\ x.tax_rate # null /\ res.st = "ok"
    /\ x.region.gift_cards_taxable
    /\ Truthy(getGiftCardTotal(x, NoGiftCardOptions).v.tax_total)
    /\ Truthy(res.v)

Gated(cart, forceTaxes) == isCart(cart) /\ ~forceTaxes /\ ~cart.region.automatic_taxes

ReturnsJoined(cart) ==
    \A k \in 1..Len(cart.items) : cart.items[k].is_return => isDefined(cart.items[k].tax_lines)

\* C10 as stated: null exactly for a cart without automatic taxes and without
\* forceTaxes, then without any collaborator call; with forceTaxes the same
\* cart gets a number.
C10_NullExactlyWhenGated ==
    op = "getTaxTotal" =>
        /\ (res.st = "ok" /\ res.v = null) <=> Gated(x, arg.forceTaxes)
        /\ Gated(x, arg.forceTaxes) => res.log = <<>>
        /\ (isCart(x) /\ ~x.region.automatic_taxes /\ arg.forceTaxes)
              => res.st = "ok" /\ res.v.t = "num"

\* C10: as above, the cart with forceTaxes getting a number when each of its
\* return items has its tax lines joined, and failing otherwise.
C10_NullTaxTotal ==
    op = "getTaxTotal" =>
        /\ (res.st = "ok" /\ res.v = null) <=> Gated(x, arg.forceTaxes)
        /\ Gated(x, arg.forceTaxes) => res.log = <<>>
        /\ (isCart(x) /\ ~x.region.automatic_taxes /\ arg.forceTaxes /\ ReturnsJoined(x))
              => res.st = "ok" /\ res.v.t = "num"
        /\ (isCart(x) /\ ~x.region.automatic_taxes /\ arg.forceTaxes /\ ~ReturnsJoined(x))
              => res.st # "ok"

\* the null tax total of a cart with items and a gift card
C10_Witness ==
    /\ op = "getTaxTotal" /\ res.st = "ok" /\ res.v = null
    /\ Len(x.items) > 0 /\ Len(x.gift_cards) > 0

\* the amounts of the adjustments of the item that carry the given discount id
AdjustmentsOf(item, id) ==
    LET adjs == OrEmpty(item.adjustments)
    IN  Sum([k \in 1..Len(adjs) |-> IF adjs[k].discount_id = id THEN Nr(adjs[k].amount) ELSE Nr(0)])

\* the positions of the discounts that are not FREE_SHIPPING
Allocating(discounts) == {k \in 1..Len(discounts) : discounts[k].type # FREE_SHIPPING}

\* the amount the claim gives the item: its adjustments of the first discount
\* that is not FREE_SHIPPING, if it allows discounts, and its custom ones
ClaimedAmount(item, discounts) ==
    LET ks == Allocating(discounts)
        first == CHOOSE k \in ks : \A j \in ks : k <= j
    IN  Add(IF ks # {} /\ item.allow_discounts
            THEN AdjustmentsOf(item, discounts[first].id) ELSE Nr(0),
            AdjustmentsOf(item, "null"))

\* the last of the merged items that carries the id
LastWith(order, id) ==
    LET merged == Merged(order)
        ks == {k \in 1..Len(merged) : merged[k].id = id}
    IN  merged[CHOOSE k \in ks : \A j \in ks : j <= k]

MergedIds(order) == {Merged(order)[k].id : k \in 1..Len(Merged(order))}

\* C11 as stated: every item of the order, its swaps and its claims finds
\* its own amount in the entry of its id.
C11_EveryItemItsAmount ==
    (op = "getAllocationMap" /\ ~arg.exclude_discounts) =>
        \A k \in 1..Len(Merged(x)) :
            /\ Merged(x)[k].id \in DOMAIN res.v
            /\ res.v[Merged(x)[k].id].discount.amount = ClaimedAmount(Merged(x)[k], x.discounts)

\* C11: getAllocationMap has one entry per item id of the order, its swaps
\* and its claims; its discount.amount is the sum of the adjustments of the
\* first discount that is not FREE_SHIPPING (0 when the item allows no
\* discounts or there is no such discount) plus the sum of the adjustments
\* with a null discount_id, taken on the last item that carries the id;
\* adjustments of other discounts never contribute.
C11_AllocationAmounts ==
    (op = "getAllocationMap" /\ ~arg.exclude_discounts) =>
        /\ DOMAIN res.v = MergedIds(x)
        /\ \A id \in MergedIds(x) :
               res.v[id].discount.amount = ClaimedAmount(LastWith(x, id), x.discounts)

\* a FREE_SHIPPING discount first, an item with adjustments of both other
\* discounts and custom ones: 100 + 11 of d1 and 20 custom
C11_Witness ==
    /\ op = "getAllocationMap" /\ ~arg.exclude_discounts
    /\ Len(x.discounts) = 2 /\ x.discounts[1].type = FREE_SHIPPING
    /\ \E id \in DOMAIN res.v :
           /\ AdjustmentsOf(LastWith(x, id), "d2") # Nr(0)
           /\ res.v[id].discount.amount = Nr(131)

\* C12: every entry's unit_amount is round(amount / quantity), an integer,
\* also when an item id occurs more than once.
C12_UnitAmountRounded ==
    (op = "getAllocationMap" /\ ~arg.exclude_discounts) =>
        \A id \in DOMAIN res.v :
            /\ res.v[id].discount.unit_amount =
                   MathRound(Div(res.v[id].discount.amount, Nr(LastWith(x, id).quantity)))
            /\ IsInteger(res.v[id].discount.unit_amount)

\* C13: the unclamped discount amount is the rounded sum of the amounts of
\* all adjustments of all items, an item without adjustments counting 0.
C13_AdjustmentsTotal ==
    op = "getLineItemAdjustmentsTotal" =>
        MathRound(res.v) =
            MathRound(Sum([k \in 1..Len(x.items) |->
                             AmountSum(OrEmpty(x.items[k].adjustments))]))

IsLegacy(order) == isOrder(order) /\ order.tax_rate # null

\* the allocation amount of the item, 0 without an entry
AllocatedAmount(order, item) ==
    IF item.id \in DOMAIN getAllocationMap(order, NoContextOptions)
    THEN getAllocationMap(order, NoContextOptions)[item.id].discount.amount
    ELSE Nr(0)

\* C14: for an item without tax lines of an order with a tax_rate,
\* getLineItemTotals with include_tax gives original_tax_total = subtotal *
\* rate, tax_total = (subtotal - discount_total) * rate, original_total =
\* subtotal + original_tax_total and total = subtotal - discount_total +
\* tax_total, discount_total being the rounded allocation amount.
C14_LegacyLineTotals ==
    (/\ op = "getLineItemTotals" /\ arg.include_tax /\ IsLegacy(x)
     /\ OrEmpty(x.items[arg.item].tax_lines) = <<>>) =>
        LET v == res.v
            rate == Div(x.tax_rate, Hundred)
        IN  /\ res.st = "ok"
            /\ v.discount_total = MathRound(AllocatedAmount(x, x.items[arg.item]))
            /\ v.original_tax_total = Mul(v.subtotal, rate)
            /\ v.tax_total = Mul(Sub(v.subtotal, v.discount_total), rate)
            /\ v.original_total = Add(v.subtotal, v.original_tax_total)
            /\ v.total = Add(Sub(v.subtotal, v.discount_total), v.tax_total)

\* the context getLineItemTotals builds when none is passed
LineContext(cartOrOrder) ==
    getCalculationContext(cartOrOrder, [NoContextOptions EXCEPT !.exclude_shipping = TRUE])

StrategyCalls(log) == SelectSeq(log, LAMBDA c : c.fn = "calculate")

\* C15: on the tax-lines path with include_tax, tax lines to apply and no
\* tax-inclusive pricing, getLineItemTotals asks the strategy twice for the
\* item, with the context for tax_total and with the context less its
\* allocation map for original_tax_total; total = subtotal - discount_total
\* + tax_total, original_total = subtotal + original_tax_total, subtotal =
\* unit_price * quantity.
C15_TaxLinesLineTotals ==
    (/\ op = "getLineItemTotals" /\ arg.include_tax /\ ~IsLegacy(x) /\ res.st = "ok"
     /\ Len(res.v.tax_lines.v) > 0
     /\ ~(featureFlag /\ x.items[arg.item].includes_tax)) =>
        LET v == res.v
            item == x.items[arg.item]
            calls == StrategyCalls(res.log)
            withDiscounts == calculate(<<item>>, v.tax_lines.v, LineContext(x))
            without == calculate(<<item>>, v.tax_lines.v,
                                 [LineContext(x) EXCEPT !.allocation_map = EmptyMap])
        IN  /\ Len(calls) = 2
            /\ calls[1] = withDiscounts.log[1]
            /\ calls[2] = without.log[1]
            /\ v.tax_total = withDiscounts.v
            /\ v.original_tax_total = without.v
            /\ v.subtotal = Nr(item.unit_price * item.quantity)
            /\ v.total = Add(Sub(v.subtotal, v.discount_total), v.tax_total)
            /\ v.original_total = Add(v.subtotal, v.original_tax_total)

\* a discounted cart item whose tax lines came from the provider: the tax
\* with the discount differs from the tax without
C15_Witness ==
    /\ op = "getLineItemTotals" /\ arg.include_tax /\ isCart(x) /\ res.st = "ok"
    /\ ~arg.use_tax_lines
    /\ Calls(res.log, "getTaxLines") # {}
    /\ Len(res.v.tax_lines.v) > 0
    /\ ~(featureFlag /\ x.items[arg.item].includes_tax)
    /\ res.v.tax_total # res.v.original_tax_total
    /\ Truthy(res.v.discount_total)

\* the unit_amount of the item's allocation entry, 0 without an entry
AllocatedUnitAmount(order, item) ==
    IF item.id \in DOMAIN getAllocationMap(order, NoContextOptions)
    THEN getAllocationMap(order, NoContextOptions)[item.id].discount.unit_amount
    ELSE Nr(0)

\* the tax included in the unit price at the rate (a fraction): 0 unless
\* tax-inclusive pricing is enabled and the item includes tax
IncludedTax(item, taxRate) ==
    IF featureFlag /\ item.includes_tax
    THEN MathRound(calculatePriceTaxAmount(Nr(item.unit_price), taxRate, TRUE))
    ELSE Nr(0)

\* (unit_price - t) * quantity - u * quantity
DiscountedSubtotal(item, t, u) ==
    Sub(Mul(Sub(Nr(item.unit_price), t), Nr(item.quantity)), Mul(u, Nr(item.quantity)))

PlainLinesRefund ==
    /\ op = "getLineItemRefund" /\ x.tax_rate = null
    /\ ~(featureFlag /\ arg.lineItem.includes_tax)

\* sum of the rates of the lines, in percent
PercentSum(lines) == Sum([k \in 1..Len(lines) |-> Nr(lines[k].rate)])

\* C17 as stated: for an order with null tax_rate and an item without
\* tax-inclusive pricing, getLineItemRefund returns subtotal +
\* round(subtotal * (sum of the rates) / 100), subtotal = unit_price *
\* quantity - unit_amount * quantity, and fails with UNEXPECTED_STATE when
\* the item has no tax_lines.
C17_TaxAtSummedRate ==
    PlainLinesRefund =>
        LET item == arg.lineItem
            subtotal == DiscountedSubtotal(item, Nr(0), AllocatedUnitAmount(x, item))
        IN  IF ~isDefined(item.tax_lines) THEN res.st = "UNEXPECTED_STATE"
            ELSE /\ res.st = "ok"
                 /\ res.v = Add(subtotal,
                                MathRound(Div(Mul(subtotal, PercentSum(item.tax_lines.v)),
                                              Hundred)))

\* C17: for an order with null tax_rate and an item without tax-inclusive
\* pricing, getLineItemRefund returns the discount-adjusted subtotal plus,
\* for each tax line of the item, round(subtotal * rate / 100), every line's
\* tax rounded on its own; it fails with UNEXPECTED_STATE when the item has
\* no tax_lines.
C17_TaxRoundedPerLine ==
    PlainLinesRefund =>
        LET item == arg.lineItem
            subtotal == DiscountedSubtotal(item, Nr(0), AllocatedUnitAmount(x, item))
        IN  IF ~isDefined(item.tax_lines) THEN res.st = "UNEXPECTED_STATE"
            ELSE /\ res.st = "ok"
                 /\ res.v = Add(subtotal,
                                Sum([k \in 1..Len(item.tax_lines.v) |->
                                       MathRound(Div(Mul(subtotal, Nr(item.tax_lines.v[k].rate)),
                                                     Hundred))]))

\* two tax lines whose taxes, rounded line by line, are less than the tax
\* at the sum of their rates
C17_Witness ==
    /\ PlainLinesRefund /\ res.st = "ok"
    /\ Len(arg.lineItem.tax_lines.v) = 2
    /\ Truthy(AllocatedUnitAmount(x, arg.lineItem))
    /\ res.v = Nr(2074)

\* the context getShippingMethodTotals builds for the method
MethodContext(cartOrOrder, shippingMethod) ==
    [LineContext(cartOrOrder) EXCEPT !.shipping_methods = <<shippingMethod>>]

\* the provider's lines whose shipping_method_id is the method's id
LinesOfMethod(cartOrOrder, shippingMethod) ==
    SelectSeq(getTaxLines(cartOrOrder.items, MethodContext(cartOrOrder, shippingMethod)).v,
              LAMBDA ol : ol.kind = "shipping" /\ ol.ref = shippingMethod.id)

\* C18: getShippingMethodTotals with include_tax on the tax-lines path, for
\* a method without tax lines, asks the provider once and keeps the lines of
\* the method; when none is left an order fails with UNEXPECTED_STATE and a
\* cart gets tax_total = original_tax_total = 0 without a call of the
\* strategy.
C18_ShippingLinesFetched ==
    (/\ op = "getShippingMethodTotals" /\ arg.include_tax /\ ~IsLegacy(x)
     /\ Len(x.shipping_methods[arg.method].tax_lines) = 0) =>
        LET own == LinesOfMethod(x, x.shipping_methods[arg.method])
        IN  /\ Cardinality(Calls(res.log, "getTaxLines")) = 1
            /\ Len(own) > 0 => res.st = "ok" /\ res.v.tax_lines = own
            /\ (Len(own) = 0 /\ isOrder(x)) => res.st = "UNEXPECTED_STATE"
            /\ (Len(own) = 0 /\ isCart(x)) =>
                   /\ res.st = "ok"
                   /\ res.v.tax_lines = <<>>
                   /\ res.v.tax_total = Nr(0)
                   /\ res.v.original_tax_total = Nr(0)
                   /\ Calls(res.log, "calculate") = {}

\* an order with items whose method has no tax lines and gets none
C18_Witness ==
    /\ op = "getShippingMethodTotals" /\ arg.include_tax /\ isOrder(x) /\ x.tax_rate = null
    /\ Len(x.items) > 0
    /\ Len(x.shipping_methods[arg.method].tax_lines) = 0
    /\ res.st = "UNEXPECTED_STATE"
    /\ Cardinality(Calls(res.log, "getTaxLines")) = 1

\* C19: getShippingMethodTotals with include_tax, tax lines and no
\* FREE_SHIPPING discount, T being the strategy's result for no items, the
\* tax lines and the context: tax_total = original_tax_total = T; when
\* tax-inclusive pricing is enabled and the method includes tax, subtotal =
\* price - T and total = original_total = price; otherwise subtotal = price
\* and total = original_total = price + T.
C19_ShippingTaxLines ==
    (/\ op = "getShippingMethodTotals" /\ arg.include_tax /\ res.st = "ok"
     /\ Len(res.v.tax_lines) > 0
     /\ \A k \in 1..Len(x.discounts) : x.discounts[k].type # FREE_SHIPPING) =>
        LET v == res.v
            method == x.shipping_methods[arg.method]
            price == Nr(method.price)
            T == calculate(<<>>, v.tax_lines, MethodContext(x, method))
        IN  /\ StrategyCalls(res.log) = T.log
            /\ v.tax_total = T.v
            /\ v.original_tax_total = T.v
            /\ IF featureFlag /\ method.includes_tax
               THEN /\ v.subtotal = Sub(price, T.v)
                    /\ v.total = price
                    /\ v.original_total = price
               ELSE /\ v.subtotal = price
                    /\ v.total = Add(price, T.v)
                    /\ v.original_total = Add(price, T.v)

\* a method at 50 including its tax of 5
C19_Witness ==
    /\ op = "getShippingMethodTotals" /\ arg.include_tax /\ res.st = "ok"
    /\ x.discounts = <<>>
    /\ featureFlag /\ x.shipping_methods[arg.method].includes_tax
    /\ Len(res.v.tax_lines) > 0
    /\ res.v.tax_total = Nr(5)
    /\ res.v.subtotal = Nr(45)
    /\ res.v.total = Nr(50)

\* the items getSubtotal is taken over
SubtotalItems(cartOrOrder, excludeNonDiscounts) ==
    IF excludeNonDiscounts
    THEN SelectSeq(cartOrOrder.items, LAMBDA item : item.allow_discounts)
    ELSE cartOrOrder.items

\* getLineItemTotals(item, x, {include_tax: true, exclude_gift_cards: true})
\* of each of the items
SubtotalBreakdowns(cartOrOrder, items) ==
    [k \in 1..Len(items) |->
        getLineItemTotals(items[k], cartOrOrder, LineItemTotalsOptions(TRUE, FALSE, TRUE))]

\* C20: getSubtotal is the sum, rounded once, of the subtotal of
\* getLineItemTotals(item, x, {include_tax: true, exclude_gift_cards: true})
\* over the items, over those with allow_discounts only when
\* excludeNonDiscounts is set; it is 0 without items.
C20_SubtotalOfItems ==
    op = "getSubtotal" =>
        LET each == SubtotalBreakdowns(x, SubtotalItems(x, arg.excludeNonDiscounts))
        IN  /\ (\A k \in 1..Len(each) : each[k].st = "ok") =>
                  /\ res.st = "ok"
                  /\ res.v = MathRound(Sum([k \in 1..Len(each) |-> each[k].v.subtotal]))
            /\ (\E k \in 1..Len(each) : each[k].st # "ok") => res.st # "ok"
            /\ Len(x.items) = 0 => res.v = Nr(0)

\* a subtotal over the one item of two that allows discounts
C20_Witness ==
    /\ op = "getSubtotal" /\ arg.excludeNonDiscounts /\ res.st = "ok"
    /\ Len(x.items) = 2
    /\ Len(SubtotalItems(x, TRUE)) = 1
    /\ Truthy(res.v)
    /\ res.v # getSubtotal(x, [excludeNonDiscounts |-> FALSE]).v

\* the strategy's result for the items, the tax lines getTaxTotal collects
\* and the context
StrategyResult(cartOrOrder) ==
    LET context == getCalculationContext(cartOrOrder, NoContextOptions)
    IN  calculate(cartOrOrder.items, CollectTaxLines(cartOrOrder, context).v, context).v

\* C21: on the tax-lines path getTaxTotal returns rounded(S - g.tax_total)
\* when region.gift_cards_taxable and rounded(S) when not, S being the
\* strategy's result and g the gift card total.
C21_TaxLessGiftCardTax ==
    (op = "getTaxTotal" /\ ~IsLegacy(x) /\ res.st = "ok" /\ res.v # null) =>
        LET S == StrategyResult(x)
            g == getGiftCardTotal(x, NoGiftCardOptions).v
        IN  res.v = IF x.region.gift_cards_taxable
                    THEN MathRound(Sub(S, g.tax_total))
                    ELSE MathRound(S)

\* a cart whose gift card carries tax that is taken off the strategy's result
C21_Witness ==
    /\ op = "getTaxTotal" /\ isCart(x) /\ res.st = "ok" /\ res.v # null
    /\ x.region.gift_cards_taxable
    /\ Truthy(getGiftCardTotal(x, NoGiftCardOptions).v.tax_total)
    /\ res.v # StrategyResult(x)
    /\ Truthy(StrategyResult(x))

\* the items marked is_return
ReturnItems(cartOrOrder) == SelectSeq(cartOrOrder.items, LAMBDA i : i.is_return)

\* the tax lines joined on the items, undefined relations counting as empty
JoinedLines(items) == Flat([k \in 1..Len(items) |-> OrEmpty(items[k].tax_lines)])

\* the tax lines joined on the shipping methods
JoinedShippingLines(cartOrOrder) ==
    Flat([k \in 1..Len(cartOrOrder.shipping_methods) |->
            cartOrOrder.shipping_methods[k].tax_lines])

\* what getTaxTotal returns when the strategy is handed the lines
TaxOfLines(cartOrOrder, lines) ==
    LET S == calculate(cartOrOrder.items, lines,
                       getCalculationContext(cartOrOrder, NoContextOptions)).v
        g == getGiftCardTotal(cartOrOrder, NoGiftCardOptions).v
    IN  IF cartOrOrder.region.gift_cards_taxable
        THEN MathRound(Sub(S, g.tax_total)) ELSE MathRound(S)

AllJoined(items) == \A k \in 1..Len(items) : isDefined(items[k].tax_lines)

ProvidedLines(cart) ==
    getTaxLines(cart.items, getCalculationContext(cart, NoContextOptions)).v

C23_NoTaxUnlessAsked ==
    (op = "getLineItemTotals" /\ ~arg.include_tax) =>
        LET v == res.v
            item == x.items[arg.item]
        IN  /\ res.st = "ok"
            /\ res.log = <<>>
            /\ v.tax_total = Nr(0)
            /\ v.original_tax_total = Nr(0)
            /\ v.subtotal = Nr(item.unit_price * item.quantity)
            /\ v.total = Sub(v.subtotal, v.discount_total)
            /\ v.original_total = v.subtotal

\* C24: a calculation context passed through the options is left as it
\* was by getShippingMethodTotals and by getLineItemTotals.
C24_PassedContextUnchanged ==
    callerContext.def => callerContext = arg.calculation_context

\* the results rs awaited in order: the calls up to and including the first
\* failure, and that failure
FailedAt(rs) == {i \in 1..Len(rs) : rs[i].st # "ok"}

FirstFailure(rs) == CHOOSE i \in FailedAt(rs) : \A j \in FailedAt(rs) : i <= j

InOrder(rs) ==
    IF FailedAt(rs) = {} THEN [log |-> Flat([i \in 1..Len(rs) |-> rs[i].log]), st |-> "ok"]
    ELSE [log |-> Flat([i \in 1..FirstFailure(rs) |-> rs[i].log]),
          st |-> rs[FirstFailure(rs)].st]

Outcome(r) == [log |-> r.log, st |-> r.st]

MethodBreakdowns ==
    [k \in 1..Len(x.shipping_methods) |->
        getShippingMethodTotals(x.shipping_methods[k], x, ShippingMethodTotalsOptions(TRUE))]

TotalParts ==
    <<getSubtotal(x, [excludeNonDiscounts |-> FALSE]),
      getTaxTotal(x, arg.force_taxes),
      getDiscountTotal(x),
      IF arg.exclude_gift_cards THEN Ok(NoValue, <<>>)
      ELSE getGiftCardTotal(x, NoGiftCardOptions),
      getShippingTotal(x)>>

WithoutGiftCards(cartOrOrder) ==
    [cartOrOrder EXCEPT !.gift_cards = <<>>, !.gift_card_transactions = <<>>]

ValueAndStatus(r) == [v |-> r.v, st |-> r.st]

\* C26 as claimed: getTotal(x, {exclude_gift_cards: true}) and
\* getGiftCardableAmount(x) return what they return for x without its gift
\* cards and gift card transactions, on either tax system, gift cards taxable
\* or not.
C26_GiftCardsIgnored ==
    /\ (op = "getTotal" /\ arg.exclude_gift_cards) =>
          ValueAndStatus(res) = ValueAndStatus(getTotal(WithoutGiftCards(x), arg))
    /\ op = "getGiftCardableAmount" =>
          ValueAndStatus(res) = ValueAndStatus(getGiftCardableAmount(WithoutGiftCards(x)))

\* C26: on the tax-lines path in a region where gift cards are not taxable,
\* getTotal(x, {exclude_gift_cards: true}) returns what it returns for x
\* without its gift cards; so does getGiftCardableAmount(x) there and in
\* every region where gift cards are taxable.
C26_GiftCardsIgnoredOffTheTax ==
    /\ (op = "getTotal" /\ arg.exclude_gift_cards
          /\ ~IsLegacy(x) /\ ~x.region.gift_cards_taxable) =>
          ValueAndStatus(res) = ValueAndStatus(getTotal(WithoutGiftCards(x), arg))
    /\ (op = "getGiftCardableAmount"
          /\ (x.region.gift_cards_taxable \/ ~IsLegacy(x))) =>
          ValueAndStatus(res) = ValueAndStatus(getGiftCardableAmount(WithoutGiftCards(x)))

\* a taxed total that the gift cards would lower were they not excluded
C26_Witness ==
    /\ op = "getTotal" /\ arg.exclude_gift_cards
    /\ ~IsLegacy(x) /\ ~x.region.gift_cards_taxable
    /\ x.gift_cards # <<>> /\ res.st = "ok"
    /\ Lt(Nr(0), getTaxTotal(x, arg.force_taxes).v)
    /\ Lt(getTotal(x, [arg EXCEPT !.exclude_gift_cards = FALSE]).v, res.v)

\* C27: an item of a null-rate order with an empty tax-line list, refunded
\* at its full quantity of at least 1, is refunded no more than its net
\* amount unit_price * quantity - discount_total of getLineItemTotals.
C27_RefundWithinNet ==
    (op = "getLineItemRefund" /\ x.tax_rate = null
       /\ (\E k \in 1..Len(x.items) : x.items[k] = arg.lineItem)
       /\ arg.lineItem.tax_lines = Some(<<>>) /\ arg.lineItem.quantity >= 1) =>
        LET item == arg.lineItem
            totals == getLineItemTotals(item, x, LineItemTotalsOptions(TRUE, FALSE, FALSE))
        IN  /\ res.st = "ok" /\ totals.st = "ok"
            /\ ~Lt(Sub(Nr(item.unit_price * item.quantity), totals.v.discount_total), res.v)

\* the cart or order with the includes_tax flag of its k-th item inverted
OtherIncludesTax(cartOrOrder, k) ==
    [cartOrOrder EXCEPT !.items[k].includes_tax = ~@]

\* C28: with tax-inclusive pricing disabled, getLineItemTotals returns for an
\* item what it returns for the same item with the other value of
\* includes_tax, on either tax system.
C28_IncludesTaxIgnored ==
    (op = "getLineItemTotals" /\ ~featureFlag) =>
        LET y == OtherIncludesTax(x, arg.item)
        IN  ValueAndStatus(res) =
              ValueAndStatus(getLineItemTotals(y.items[arg.item], y,
                            LineItemTotalsOptions(arg.include_tax, arg.use_tax_lines, FALSE)))

\* C29: with tax-inclusive pricing enabled, the totals of an includes_tax
\* item on the tax-lines path have subtotal + original_tax_total =
\* unit_price * quantity, whatever the include_tax option and the tax lines
\* resolved.
C29_InclusivePriceSplit ==
    (op = "getLineItemTotals" /\ featureFlag /\ x.items[arg.item].includes_tax
       /\ ~IsLegacy(x) /\ res.st = "ok") =>
        Add(res.v.subtotal, res.v.original_tax_total)
          = Nr(x.items[arg.item].unit_price * x.items[arg.item].quantity)

\* getLineItemTotals(item, x) of every item of x
LineBreakdowns ==
    [k \in 1..Len(x.items) |->
        getLineItemTotals(x.items[k], x, LineItemTotalsOptions(FALSE, FALSE, FALSE))]

LineDiscountSum(breakdowns) ==
    Sum([k \in 1..Len(breakdowns) |-> breakdowns[k].v.discount_total])

Between(low, v, high) == ~Lt(v, low) /\ ~Lt(high, v)

DiscountsAgree(total, breakdowns, discountable) ==
    (/\ total.st = "ok" /\ discountable.st = "ok"
     /\ \A k \in 1..Len(breakdowns) : breakdowns[k].st = "ok"
     /\ Between(Nr(0), LineDiscountSum(breakdowns), discountable.v)) =>
        total.v = LineDiscountSum(breakdowns)

\* C30: for a cart or order whose items all allow discounts,
\* getDiscountTotal(x) is the sum over the items of the discount_total of
\* getLineItemTotals(item, x), whenever that sum lies between 0 and the
\* discountable subtotal.
C30_DiscountTotalOfLines ==
    (op = "getDiscountTotal" /\ \A k \in 1..Len(x.items) : x.items[k].allow_discounts) =>
        DiscountsAgree(res, LineBreakdowns, getSubtotal(x, [excludeNonDiscounts |-> TRUE]))

=============================================================================
